---- MODULE Spec2Model ----
(***************************************************************************)
(* A model of the agent runtime core of openmanus-aligned: the event       *)
(* stream (app/core/events.py), the planner (app/core/planner.py), the     *)
(* context engine (app/core/context.py) and the agent loop                 *)
(* (app/agent/manus_aligned.py).                                           *)
(*                                                                         *)
(* Every handler is an operator from the state of the objects it touches   *)
(* to their state after the call; the actions of the specifications apply  *)
(* the operators to the variables.  A Python list is a sequence, a dict is *)
(* a sequence of <<key, value>> pairs in insertion order, None is "" for a *)
(* string and 0 for a reference.  A text the program builds from parts (a  *)
(* request, a title, a step description) is the sequence of its parts; a   *)
(* tool name, a tool result and an id are single strings.                  *)
(***************************************************************************)
EXTENDS Integers, Sequences, FiniteSets, TLC

VARIABLES
    event_stream,   \* EventStream: [events, max_events, history]
    planner,        \* Planner: [plans, current_plan, plan_history, replan_on_error]
    context_engine, \* ContextEngine: [step_count, errors, todo]
    agent,          \* ManusAligned: [state, plan_created, current_step, max_steps,
                    \*                tool_calls, cur, pc, terminal]
    clock,          \* datetime.utcnow()
    budget,         \* calls left to the operations the model bounds
    twin,           \* a second agent given the same inputs: its four objects
    knowledge_module, \* KnowledgeModule: [knowledge_base, active_scopes, max_injections]
    datasource,     \* DataSourceRegistry: [sources, order]
    llm,            \* one LLM.ask / ask_tool call under its retry policy
    manager         \* SandboxManager and the coroutines that call it

vars == <<event_stream, planner, context_engine, agent, clock, budget, twin,
          knowledge_module, datasource, llm, manager>>

\* The objects of one agent run, and the objects modelled beside it.
core == <<event_stream, planner, context_engine, agent, clock, budget, twin>>

(***************************************************************************)
(* Bounds of the model.                                                    *)
(***************************************************************************)
MaxAppends == 6      \* append calls in one behaviour of SpecLog
MaxCap == 2          \* largest max_events SpecLog configures
MaxClock == 1        \* largest timestamp
MaxTwinAppends == 3  \* append calls to each of the two streams of SpecSer
MaxPlans == 2        \* Plan objects one Planner creates
MaxUpdates == 1      \* update_step_status calls in one behaviour of SpecPlan
MaxIndex == 3        \* largest current_step_index advance is called at
NumPlanIds == 2      \* values the plan id factory draws from
MaxSteps == 2        \* largest max_steps SpecAgent configures
MaxTwinSteps == 1    \* largest max_steps SpecTwin configures
MaxMisuse == 1       \* run calls on an agent that is not IDLE, in SpecAgent
MaxHappySteps == 3     \* the largest max_steps of an agent on the happy path
MaxReciteSteps == 6    \* the largest max_steps of an agent whose prompts are watched
MaxRecords == 13       \* record_error calls on one context engine
MaxEmits == 3          \* build_context calls on one context engine
MaxCtxErrors == 2      \* record_error calls between them
MaxItems == 3          \* the most items a KnowledgeModule holds
MaxUsage == 1          \* the largest usage_count of a Datasource
StopAfterAttempt == 6  \* stop_after_attempt(6) of LLM.ask and LLM.ask_tool
MaxLlmCalls == 2       \* the most LLM calls made one after another
MaxEvictSteps == 3     \* the largest max_steps of an agent with a small event log
WaitTimes == 10        \* range(10) of _safe_delete_sandbox
IdleTimeout == 1       \* idle_timeout of the SandboxManager, in ticks
MaxBoxIds == 2         \* the most sandboxes created, and the largest max_sandboxes
MaxBoxCalls == 3       \* the most calls made to a SandboxManager
MaxBoxTime == 2        \* the last tick of the event loop's clock
MaxQueries == 1        \* the most queries put to a registry
MaxObserveSteps == 2   \* the largest max_steps of an agent whose tools answer at length

(***************************************************************************)
(* Python helpers.                                                         *)
(***************************************************************************)
Min(a, b) == IF a < b THEN a ELSE b
Max(a, b) == IF a > b THEN a ELSE b

\* s[i:] for any integer i: a negative i counts from the end, and -0 is 0.
PySliceFrom(s, i) ==
    LET start == IF i < 0 THEN Max(0, Len(s) + i) ELSE Min(i, Len(s))
    IN  SubSeq(s, start + 1, Len(s))

\* s[-k:], as Python evaluates it: the unary minus first, then the slice.
PyLast(s, k) == PySliceFrom(s, 0 - k)

\* len(s) of the strings texts are made of
Chars(s) ==
    CASE s = "List files in /tmp then print their count." -> 42
      [] s = "Collect the weather data of every city and write a report" -> 57
      [] s = "Error in " -> 9
      [] s = ": " -> 2
      [] s = "python_execute" -> 14
      [] s = "terminate" -> 9
      [] s = "missing_tool" -> 12
      [] s = "a.txt b.txt" -> 11
      [] s = "done" -> 4
      [] s = "Error: network unreachable" -> 26
      [] s = "" -> 0
      [] s = "<10001 characters>" -> 10001
      [] s = "Error: <10001 characters>" -> 10008
      [] OTHER -> 10

RECURSIVE TextLen(_)
TextLen(t) == IF t = <<>> THEN 0 ELSE Chars(Head(t)) + TextLen(Tail(t))

\* t[:50] + "..."
Truncate50(t) == <<"[:50]">> \o t \o <<"...">>

(***************************************************************************)
(* JSON text.  json.dumps(d, sort_keys=True, separators=(',', ':')) of a   *)
(* dict is modelled by the sequence of its <<key, value>> pairs in the     *)
(* order they are written; two texts are byte-identical iff the sequences  *)
(* are equal.  KeyOrder lists the keys in the order Python sorts them.     *)
(***************************************************************************)
KeyOrder ==
    << "a", "b", "category", "content", "current_step_index", "data", "error",
       "event_name", "id", "is_complete", "metadata", "name", "output",
       "plan_id", "priority", "role", "scope", "source_id", "step_statuses",
       "steps", "timestamp", "title", "tool_call_id", "tool_input",
       "tool_name", "type" >>

KeyRank(k) == CHOOSE i \in 1..Len(KeyOrder) : KeyOrder[i] = k

\* the keys whose values are dicts themselves
DictKeys == {"metadata", "tool_input", "data"}

RECURSIVE InsertSorted(_, _)
InsertSorted(pair, sorted) ==
    IF sorted = <<>> THEN <<pair>>
    ELSE IF KeyRank(pair[1]) <= KeyRank(Head(sorted)[1])
         THEN <<pair>> \o sorted
         ELSE <<Head(sorted)>> \o InsertSorted(pair, Tail(sorted))

RECURSIVE SortByKey(_)
SortByKey(d) ==
    IF d = <<>> THEN <<>> ELSE InsertSorted(Head(d), SortByKey(Tail(d)))

\* json.dumps(d, sort_keys=True) of a dict whose values are not dicts
dumps_flat_sorted(d) == SortByKey(d)

\* json.dumps(d) of a dict: keys in insertion order, at every level
dumps_unsorted(d) == d

\* json.dumps(d, sort_keys=True) of an event's to_dict(): nested dicts too
dumps_sorted(d) ==
    SortByKey([i \in 1..Len(d) |->
        IF d[i][1] \in DictKeys
        THEN <<d[i][1], dumps_flat_sorted(d[i][2])>>
        ELSE d[i]])

\* Python's == on two dicts: the same keys with the same values, in any order
DictEq(d1, d2) ==
    /\ Len(d1) = Len(d2)
    /\ \A i \in 1..Len(d1) : \E j \in 1..Len(d2) : d1[i] = d2[j]

(***************************************************************************)
(* Events (events.py).  Every event record has the fields of all seven     *)
(* kinds; a kind's constructor sets its own and leaves the rest blank.     *)
(* seq is not a field of the program: it is the ordinal of the append call *)
(* that put the entry into a stream (0 before); the stream's history, the  *)
(* entries of all append calls so far, is not one either.                  *)
(***************************************************************************)
EventType ==
    {"message", "action", "observation", "plan", "knowledge", "datasource", "system"}

BlankEvent ==
    [ id |-> <<>>, type |-> "", timestamp |-> 0, metadata |-> <<>>, seq |-> 0,
      role |-> "", content |-> <<>>,
      tool_name |-> "", tool_input |-> <<>>, tool_call_id |-> "",
      output |-> "", error |-> "",
      plan_id |-> 0, title |-> <<>>, steps |-> <<>>, step_statuses |-> <<>>,
      current_step_index |-> 0, is_complete |-> FALSE,
      category |-> "", scope |-> "", priority |-> 0,
      source_id |-> "", name |-> "",
      event_name |-> "", data |-> <<>> ]

\* _content_hash of each kind
_content_hash(e) ==
    CASE e.type = "message"     -> <<e.role, e.content>>
      [] e.type = "action"      -> <<e.tool_name, dumps_flat_sorted(e.tool_input)>>
      [] e.type = "observation" -> <<e.tool_name, e.output, e.error>>
      [] e.type = "plan"        -> <<e.plan_id, e.title, Len(e.steps)>>
      [] e.type = "knowledge"   -> <<e.category, e.scope, e.content>>
      [] e.type = "datasource"  -> <<e.source_id, e.name>>
      [] e.type = "system"      -> <<e.event_name, dumps_flat_sorted(e.data)>>

\* _generate_id: the digest of type, timestamp and content hash, modelled by
\* the triple it is the digest of (no two triples collide)
_generate_id(e) == <<e.type, e.timestamp, _content_hash(e)>>

\* Event.__init__: the id is set once, from the content
NewEvent(e) == [e EXCEPT !.id = _generate_id(e)]

MessageEvent(role, content, ts) ==
    NewEvent([BlankEvent EXCEPT !.type = "message", !.timestamp = ts,
                                !.role = role, !.content = content])

ActionEvent(tool_name, tool_input, tool_call_id, ts) ==
    NewEvent([BlankEvent EXCEPT !.type = "action", !.timestamp = ts,
                                !.tool_name = tool_name, !.tool_input = tool_input,
                                !.tool_call_id = tool_call_id])

ObservationEvent(tool_name, tool_call_id, output, error, ts) ==
    NewEvent([BlankEvent EXCEPT !.type = "observation", !.timestamp = ts,
                                !.tool_name = tool_name, !.tool_call_id = tool_call_id,
                                !.output = output, !.error = error])

PlanEvent(plan_id, title, steps, step_statuses, current_step_index, is_complete, ts) ==
    NewEvent([BlankEvent EXCEPT !.type = "plan", !.timestamp = ts,
                                !.plan_id = plan_id, !.title = title, !.steps = steps,
                                !.step_statuses = step_statuses,
                                !.current_step_index = current_step_index,
                                !.is_complete = is_complete])

KnowledgeEvent(category, scope, content, priority, ts) ==
    NewEvent([BlankEvent EXCEPT !.type = "knowledge", !.timestamp = ts,
                                !.category = category, !.scope = scope,
                                !.content = content, !.priority = priority])

DatasourceEvent(source_id, name, priority, ts) ==
    NewEvent([BlankEvent EXCEPT !.type = "datasource", !.timestamp = ts,
                                !.source_id = source_id, !.name = name,
                                !.priority = priority])

SystemEvent(event_name, data, ts) ==
    NewEvent([BlankEvent EXCEPT !.type = "system", !.timestamp = ts,
                                !.event_name = event_name, !.data = data])

\* to_dict of each kind: the base fields, then the kind's own, in the order
\* the code inserts them (an error of None is left out)
to_dict(e) ==
    LET base == << <<"id", e.id>>, <<"type", e.type>>,
                   <<"timestamp", e.timestamp>>, <<"metadata", e.metadata>> >>
    IN  CASE e.type = "message" ->
               base \o << <<"role", e.role>>, <<"content", e.content>> >>
          [] e.type = "action" ->
               base \o << <<"tool_name", e.tool_name>>, <<"tool_input", e.tool_input>>,
                          <<"tool_call_id", e.tool_call_id>> >>
          [] e.type = "observation" ->
               base \o << <<"tool_name", e.tool_name>>, <<"tool_call_id", e.tool_call_id>>,
                          <<"output", e.output>> >>
                    \o (IF e.error # "" THEN << <<"error", e.error>> >> ELSE <<>>)
          [] e.type = "plan" ->
               base \o << <<"plan_id", e.plan_id>>, <<"title", e.title>>,
                          <<"steps", e.steps>>, <<"step_statuses", e.step_statuses>>,
                          <<"current_step_index", e.current_step_index>>,
                          <<"is_complete", e.is_complete>> >>
          [] e.type = "knowledge" ->
               base \o << <<"category", e.category>>, <<"scope", e.scope>>,
                          <<"content", e.content>>, <<"priority", e.priority>> >>
          [] e.type = "datasource" ->
               base \o << <<"source_id", e.source_id>>, <<"name", e.name>>,
                          <<"priority", e.priority>> >>
          [] e.type = "system" ->
               base \o << <<"event_name", e.event_name>>, <<"data", e.data>> >>

(***************************************************************************)
(* EventStream (events.py).                                                *)
(***************************************************************************)
DefaultMaxEvents == 1000

NewStream(max_events) == [events |-> <<>>, max_events |-> max_events, history |-> <<>>]

IsPreserved(e) == e.type \in {"plan", "system"}

\* EventStream.append: the append, then the trim when the cap is exceeded
append(es, event) ==
    LET entry     == [event EXCEPT !.seq = Len(es.history) + 1]
        added     == Append(es.events, entry)
        preserved == SelectSeq(added, IsPreserved)
        other     == SelectSeq(added, LAMBDA e : ~IsPreserved(e))
        keep_count == es.max_events - Len(preserved)
    IN  [es EXCEPT !.history = Append(@, entry),
                   !.events = IF Len(added) > es.max_events
                              THEN preserved \o PyLast(other, keep_count)
                              ELSE added]

get_by_type(es, event_type) == SelectSeq(es.events, LAMBDA e : e.type = event_type)

get_latest_plan(es) ==
    LET plans == get_by_type(es, "plan")
    IN  IF plans = <<>> THEN <<>> ELSE <<plans[Len(plans)]>>

\* EventStream.serialize: json.dumps of the list of to_dict()s, keys sorted
serialize(es) == [i \in 1..Len(es.events) |-> dumps_sorted(to_dict(es.events[i]))]

(***************************************************************************)
(* Plans and the Planner (planner.py).  The Planner's plans are objects    *)
(* that current_plan and plan_history both refer to: plans is the heap of  *)
(* the Plan objects created so far, current_plan an index into it (0 is    *)
(* None) and plan_history a sequence of indices.  The started_at,          *)
(* completed_at, created_at and updated_at times and the notes of a step   *)
(* are left out: no operation reads them.                                  *)
(***************************************************************************)
StepStatus == {"pending", "in_progress", "completed", "blocked", "skipped"}

\* PlanStep(index, description): a step is created Pending
PlanStep(description) == [description |-> description, status |-> "pending"]

\* PlanStep.start and PlanStep.complete
start(step) == [step EXCEPT !.status = "in_progress"]
complete(step) == [step EXCEPT !.status = "completed"]

\* Plan(title, objective), with the id the default factory draws
NewPlan(id, title, objective) ==
    [id |-> id, title |-> title, objective |-> objective, steps |-> <<>>,
     current_step_index |-> 0, is_complete |-> FALSE]

add_step(plan, description) == [plan EXCEPT !.steps = Append(@, PlanStep(description))]

\* Plan.get_current_step: the step, or None (<<>>).  Indices are the
\* program's, from 0.
get_current_step(plan) ==
    IF plan.current_step_index < Len(plan.steps)
    THEN <<plan.steps[plan.current_step_index + 1]>>
    ELSE <<>>

\* Plan.advance: the plan after the call
advance(plan) ==
    LET i == plan.current_step_index
        done == IF i < Len(plan.steps) /\ plan.steps[i + 1].status # "completed"
                THEN [plan EXCEPT !.steps[i + 1] = complete(@)]
                ELSE plan
        moved == [done EXCEPT !.current_step_index = i + 1]
    IN  IF i + 1 >= Len(plan.steps)
        THEN [moved EXCEPT !.is_complete = TRUE]
        ELSE [moved EXCEPT !.steps[i + 2] = start(@)]

\* Plan.get_progress: completed, total and the percentage (an integer here)
get_progress(plan) ==
    LET completed == Len(SelectSeq(plan.steps, LAMBDA st : st.status = "completed"))
        total == Len(plan.steps)
    IN  [completed |-> completed, total |-> total,
         percentage |-> IF total > 0 THEN (completed * 100) \div total ELSE 0,
         current_step |-> plan.current_step_index,
         is_complete |-> plan.is_complete]

\* PlanStep.to_pseudocode, for the step at position i of its plan (index
\* i - 1): a line, the sequence of its pieces.  "->" is written for the
\* arrow and "v" for the check mark of the source
status_icons(status) ==
    CASE status = "pending" -> "[ ]"
      [] status = "in_progress" -> "[->]"
      [] status = "completed" -> "[v]"
      [] status = "blocked" -> "[!]"
      [] status = "skipped" -> "[-]"

step_to_pseudocode(step, i) ==
    <<ToString(i), ". ", status_icons(step.status), " ">> \o step.description

\* f"{percentage:.1f}": the tenths of completed / total * 100, to the nearest
Percent1f(completed, total) ==
    LET tenths == IF total > 0 THEN (completed * 2000 + total) \div (2 * total) ELSE 0
    IN  <<ToString(tenths \div 10), ".", ToString(tenths % 10)>>

\* Plan.to_pseudocode: the lines of the text (no step has notes)
to_pseudocode(plan) ==
    LET progress == get_progress(plan)
    IN  << <<"PLAN: ">> \o plan.title,
           <<"========================================">>,
           <<"Objective: ">> \o plan.objective,
           <<>> >>
        \o [i \in 1..Len(plan.steps) |->
              <<IF i - 1 = plan.current_step_index THEN "-> " ELSE "  ">>
              \o step_to_pseudocode(plan.steps[i], i)]
        \o << <<>>,
              <<"Progress: ", ToString(progress.completed), "/",
                ToString(progress.total), " (">>
              \o Percent1f(progress.completed, progress.total) \o <<"%)">> >>

(* Reading a line of text as _parse_plan_response does.  strip() drops the *)
(* pieces of white space at both ends; the line is a title or an objective *)
(* when it starts with "TITLE:" or "OBJECTIVE:", a numbered step when its  *)
(* first character is a digit and it has a dot; the step text is what      *)
(* follows the first dot, the status markers taken out.                    *)
IsSpace(piece) == piece \in {" ", "  ", "     "}
StartsWithDigit(piece) == piece \in {ToString(n) : n \in 0..99}
HasDot(piece) == piece \in {". ", "."}
StatusMarkers == {"[ ]", "[->]", "[v]", "[!]", "[-]"}

RECURSIVE LStrip(_)
LStrip(line) ==
    IF line # <<>> /\ IsSpace(Head(line)) THEN LStrip(Tail(line)) ELSE line

RECURSIVE AfterFirstDot(_)
AfterFirstDot(line) ==
    IF line = <<>> THEN <<>>
    ELSE IF HasDot(Head(line)) THEN Tail(line)
    ELSE AfterFirstDot(Tail(line))

ReadLine(line) ==
    LET stripped == LStrip(line)
        rest == AfterFirstDot(stripped)
        markers == SelectSeq(rest, LAMBDA piece : piece \in StatusMarkers)
    IN  IF stripped = <<>> THEN [head |-> "", marker |-> "", body |-> <<>>]
        ELSE IF Head(stripped) \in {"TITLE:", "OBJECTIVE:"}
        THEN [head |-> Head(stripped), marker |-> "", body |-> LStrip(Tail(stripped))]
        ELSE IF StartsWithDigit(Head(stripped)) /\ \E i \in 1..Len(stripped) : HasDot(stripped[i])
        THEN [head |-> "N.",
              marker |-> IF markers = <<>> THEN "" ELSE Head(markers),
              body |-> SelectSeq(rest, LAMBDA piece :
                                   piece \notin StatusMarkers /\ ~IsSpace(piece))]
        ELSE [head |-> "", marker |-> "", body |-> stripped]

\* response.strip().split("\n"), each line read
ReadLines(text) == [i \in 1..Len(text) |-> ReadLine(text[i])]

(* An LLM reply to a planning prompt is a sequence of lines, stripped.  A   *)
(* line is [head, marker, body]: head is what the line starts with         *)
(* ("TITLE:", "OBJECTIVE:", "N." for a digit and a dot, "" for anything    *)
(* else), marker a status marker at the start of the rest ("" for none),   *)
(* body the rest of the line, a text.                                      *)
DefaultSteps ==
    << <<"Analyze the request requirements">>, <<"Execute the main task">>,
       <<"Verify the results">> >>

RECURSIVE ParseLines(_, _)
ParseLines(lines, acc) ==
    IF lines = <<>> THEN acc
    ELSE LET line == Head(lines)
             next == CASE line.head = "TITLE:" -> [acc EXCEPT !.title = line.body]
                       [] line.head = "OBJECTIVE:" -> [acc EXCEPT !.objective = line.body]
                       [] line.head = "N." /\ line.body # <<>> ->
                            [acc EXCEPT !.steps = Append(@, line.body)]
                       [] OTHER -> acc
         IN  ParseLines(Tail(lines), next)

\* Planner._parse_plan_response
_parse_plan_response(request, response, id) ==
    LET init == [title |-> IF TextLen(request) > 50 THEN Truncate50(request) ELSE request,
                 objective |-> request, steps |-> <<>>]
        got == ParseLines(response, init)
        steps == IF got.steps = <<>> THEN DefaultSteps ELSE got.steps
        plan == [NewPlan(id, got.title, got.objective)
                    EXCEPT !.steps = [i \in 1..Len(steps) |-> PlanStep(steps[i])]]
    IN  IF plan.steps # <<>> THEN [plan EXCEPT !.steps[1] = start(@)] ELSE plan

NewPlanner == [plans |-> <<>>, current_plan |-> 0, plan_history |-> <<>>,
               auto_plan |-> TRUE, replan_on_error |-> TRUE]

\* the Plan object current_plan refers to
CurrentPlan(pl) == pl.plans[pl.current_plan]

\* a new Plan object becomes current_plan and is appended to plan_history
Install(pl, plan) ==
    [pl EXCEPT !.plans = Append(@, plan),
               !.current_plan = Len(pl.plans) + 1,
               !.plan_history = Append(@, Len(pl.plans) + 1)]

\* Planner.create_plan, the LLM having replied
create_plan(pl, request, response, id) ==
    Install(pl, _parse_plan_response(request, response, id))

\* Planner.update_step_status
update_step_status(pl, step_index, status) ==
    IF pl.current_plan = 0 THEN pl
    ELSE IF 0 <= step_index /\ step_index < Len(CurrentPlan(pl).steps)
         THEN [pl EXCEPT !.plans[pl.current_plan].steps[step_index + 1].status = status]
         ELSE pl

\* Planner.advance_plan
advance_plan(pl) ==
    IF pl.current_plan = 0 THEN pl
    ELSE [pl EXCEPT !.plans[pl.current_plan] = advance(@)]

\* Planner.replan up to its LLM call: the current plan is archived
archive(pl) ==
    IF pl.current_plan = 0 THEN pl
    ELSE [pl EXCEPT !.plans[pl.current_plan].is_complete = TRUE]

\* Planner.replan, the LLM having replied.  reason is a request
replan(pl, reason, response, id) ==
    Install(archive(pl), _parse_plan_response(reason, response, id))

\* Planner.replan, the LLM call raising: what is left is the archiving
replan_raises(pl) == archive(pl)

\* Planner.is_plan_complete
is_plan_complete(pl) == IF pl.current_plan = 0 THEN TRUE ELSE CurrentPlan(pl).is_complete

(***************************************************************************)
(* ContextEngine (context.py): the step counter, the error ring and the    *)
(* todo recitation.                                                        *)
(***************************************************************************)
UpdateFrequency == 3
MaxRetained == 10

SummaryThreshold == 5

(* A text is a sequence of lines and a line a sequence of pieces, strings,  *)
(* whose concatenation it is.  Numbers are formatted into their digits.    *)
(* tool_masks is the dict in its insertion order.                          *)
NewContextEngine ==
    [step_count |-> 0, errors |-> <<>>,
     todo |-> [items |-> <<>>, completed_items |-> <<>>],
     system_prefix |-> <<>>, prefix_hash |-> <<>>, tool_masks |-> <<>>]

\* hashlib.sha256(prefix.encode()).hexdigest()[:16], modelled by the text it
\* is the digest of (no two texts collide)
sha256_16(text) == <<"sha256", text>>

\* ContextEngine.set_stable_prefix
set_stable_prefix(ce, prefix) ==
    [ce EXCEPT !.system_prefix = prefix, !.prefix_hash = sha256_16(prefix)]

\* ContextEngine.check_prefix_stability
check_prefix_stability(ce, new_prefix) == sha256_16(new_prefix) = ce.prefix_hash

\* the position of tool_name in tool_masks, 0 if it has no entry
MaskAt(ce, tool_name) ==
    IF \E i \in 1..Len(ce.tool_masks) : ce.tool_masks[i].tool_name = tool_name
    THEN CHOOSE i \in 1..Len(ce.tool_masks) : ce.tool_masks[i].tool_name = tool_name
    ELSE 0

\* a variant that writes the mask into the stable prefix
mask_tool_in_prefix(ce, tool_name, reason) ==
    set_stable_prefix(
        [ce EXCEPT !.tool_masks =
            Append(@, [tool_name |-> tool_name, state |-> "masked",
                       mask_reason |-> reason])],
        ce.system_prefix \o << <<"- ", tool_name>> >>)

\* ContextEngine.mask_tool
mask_tool(ce, tool_name, reason) ==
    LET mask == [tool_name |-> tool_name, state |-> "masked", mask_reason |-> reason]
    IN  IF MaskAt(ce, tool_name) = 0
        THEN [ce EXCEPT !.tool_masks = Append(@, mask)]
        ELSE [ce EXCEPT !.tool_masks[MaskAt(ce, tool_name)] = mask]

\* ContextEngine.unmask_tool
unmask_tool(ce, tool_name) ==
    IF MaskAt(ce, tool_name) = 0 THEN ce
    ELSE [ce EXCEPT !.tool_masks[MaskAt(ce, tool_name)].state = "available"]

\* ContextEngine.get_masked_tools_context
get_masked_tools_context(ce) ==
    LET masked == SelectSeq(ce.tool_masks, LAMBDA m : m.state = "masked")
    IN  IF masked = <<>> THEN <<>>
        ELSE << <<"[UNAVAILABLE TOOLS - Do not attempt to use:]">> >>
             \o [i \in 1..Len(masked) |->
                   IF masked[i].mask_reason # ""
                   THEN <<"- ", masked[i].tool_name, " (", masked[i].mask_reason, ")">>
                   ELSE <<"- ", masked[i].tool_name>>]

\* f"{pct:.0f}" of completed / total * 100: to the nearest, a half to even
Percent0f(completed, total) ==
    LET q == (completed * 100) \div total
        r == (completed * 100) % total
    IN  IF 2 * r > total \/ (2 * r = total /\ q % 2 = 1) THEN q + 1 ELSE q

\* TodoRecitation.to_recitation_string
to_recitation_string(todo) ==
    LET total == Len(todo.items) + Len(todo.completed_items)
        shown == SubSeq(todo.items, 1, Min(3, Len(todo.items)))
    IN  << <<"[CURRENT PROGRESS]">> >>
        \o (IF todo.items # <<>>
            THEN << <<"Active: ", ToString(Len(todo.items)), " tasks remaining">> >>
                 \o [i \in 1..Len(shown) |->
                       <<"  ", ToString(i), ". ">> \o shown[i].description]
            ELSE <<>>)
        \o (IF total > 0
            THEN << <<"Progress: ", ToString(Len(todo.completed_items)), "/",
                      ToString(total), " (",
                      ToString(Percent0f(Len(todo.completed_items), total)), "%)">> >>
            ELSE <<>>)

\* ContextEngine.get_recitation_context (recitation_enabled is set)
get_recitation_context(ce) == to_recitation_string(ce.todo)

\* ErrorRetention.to_context_string
to_context_string(errors) ==
    LET recent == PyLast(errors, SummaryThreshold)
    IN  IF errors = <<>> THEN <<>>
        ELSE << <<"[PREVIOUS ERRORS - Avoid repeating these mistakes:]">> >>
             \o [i \in 1..Len(recent) |->
                   <<"- ", recent[i].tool_name, ": ", recent[i].error_message>>]

\* ContextEngine.get_error_context (retain_errors is set)
get_error_context(ce) == to_context_string(ce.errors)

\* "\n\n".join(filter(None, parts)): the texts of parts that are not empty,
\* an empty line between them
RECURSIVE JoinParts(_)
JoinParts(parts) ==
    IF parts = <<>> THEN <<>>
    ELSE LET rest == JoinParts(Tail(parts))
         IN  IF Head(parts) = <<>> THEN rest
             ELSE IF rest = <<>> THEN Head(parts)
             ELSE Head(parts) \o << <<>> >> \o rest

\* a variant that never trims the list
record_error_untrimmed(ce, tool_name, error_message) ==
    [ce EXCEPT !.errors =
        Append(@, [tool_name |-> tool_name, error_message |-> error_message])]

\* ContextEngine.record_error (retain_errors is set) and ErrorRetention.record_error
record_error(ce, tool_name, error_message) ==
    LET added == Append(ce.errors, [tool_name |-> tool_name, error_message |-> error_message])
    IN  [ce EXCEPT !.errors = IF Len(added) > MaxRetained
                              THEN PyLast(added, MaxRetained) ELSE added]

\* ContextEngine.update_todo: completed_steps is a list of indices from 0
update_todo(ce, plan_steps, current_step, completed_steps) ==
    LET open == SelectSeq([i \in 1..Len(plan_steps) |-> i],
                          LAMBDA i : \A k \in 1..Len(completed_steps) :
                                        completed_steps[k] # i - 1)
        done == SelectSeq(completed_steps, LAMBDA i : i < Len(plan_steps))
    IN  [ce EXCEPT !.todo =
            [items |-> [k \in 1..Len(open) |->
                          [description |-> plan_steps[open[k]],
                           priority |-> IF open[k] - 1 = current_step THEN 1 ELSE 2]],
             completed_items |-> [k \in 1..Len(done) |->
                          [description |-> plan_steps[done[k] + 1]]]]]

increment_step(ce) == [ce EXCEPT !.step_count = @ + 1]

should_recite(ce) == ce.step_count % UpdateFrequency = 0

\* ContextEngine.build_context: what it changes
build_context(ce) == [ce EXCEPT !.step_count = @ + 1]

\* ContextEngine.build_context: the prefix it returns, for ce as the call
\* left it.  The recitation and the errors go to dynamic_parts, a local list
\* that is not returned
build_context_prefix(ce) ==
    JoinParts(<<ce.system_prefix, get_masked_tools_context(ce)>>)

(***************************************************************************)
(* ManusAligned (manus_aligned.py).  R is the agent with its objects:      *)
(* [event_stream, planner, context_engine, agent].  ts is the time         *)
(* datetime.utcnow() returns during the call.                              *)
(***************************************************************************)
max_observe == 10000
system_prompt == << <<"ALIGNED_SYSTEM_PROMPT">> >>
NEXT_STEP_PROMPT == << <<"NEXT_STEP_PROMPT">> >>

\* prefix and next_step_prompt are what the last think had in its local
\* prefix and in self.next_step_prompt when it called the LLM
NewAgent(max_steps) ==
    [state |-> "IDLE", plan_created |-> FALSE, current_step |-> 0,
     max_steps |-> max_steps, tool_calls |-> <<>>, cur |-> 0, pc |-> "idle",
     terminal |-> FALSE, truncated |-> FALSE,
     prefix |-> <<>>, next_step_prompt |-> NEXT_STEP_PROMPT]

\* the ContextEngine of a ManusAligned after initialize_helper
AgentContextEngine == set_stable_prefix(NewContextEngine, system_prompt)

\* the four objects of one agent
NewRun(max_events, max_steps) ==
    [event_stream |-> NewStream(max_events), planner |-> NewPlanner,
     context_engine |-> AgentContextEngine, agent |-> NewAgent(max_steps)]

special_tool_names == {"terminate"}

\* the names of ToolCollection.tool_map
available_tools == {"python_execute", "list_files", "count", "browser_use", "terminate"}

\* a variant that runs whatever is asked for
execute_any(name, outcome) == outcome

\* ToolCollection.execute and str() of its ToolResult: outcome is the text
\* of what the tool of that name returns
execute(name, outcome) ==
    IF name \notin available_tools
    THEN "Error: " \o "Tool " \o name \o " is invalid"
    ELSE outcome

\* the base agent's execute_tool: the result of the tool as a text
execute_tool(command, outcome) == execute(command.name, outcome)

\* the words of the two indicator lists that occur in s.lower()
IndicatorsIn(s) ==
    CASE s = "Error: network unreachable" -> {"error"}
      [] s = "Error: Tool missing_tool is invalid" -> {"error"}
      [] s = "Error: <10001 characters>" -> {"error"}
      [] s = "done" -> {"done"}
      [] s = "File created successfully" -> {"created", "success"}
      [] OTHER -> {}

\* s.startswith("Error:")
StartsWithError(s) ==
    s \in {"Error: network unreachable", "Error: Tool missing_tool is invalid",
           "Error: <10001 characters>"}

\* Planner.should_replan
should_replan(pl, observation) ==
    /\ pl.replan_on_error
    /\ pl.current_plan # 0
    /\ IndicatorsIn(observation)
          \cap {"error", "failed", "unable", "cannot", "blocked"} # {}

\* ManusAligned._step_appears_complete
_step_appears_complete(R, tool_name, result) ==
    /\ R.planner.current_plan # 0
    /\ get_current_step(CurrentPlan(R.planner)) # <<>>
    /\ IndicatorsIn(result)
          \cap {"success", "completed", "done", "created", "updated"} # {}

_add_message_event(R, role, content, ts) ==
    [R EXCEPT !.event_stream = append(@, MessageEvent(role, content, ts))]

_add_action_event(R, tool_name, tool_input, tool_call_id, ts) ==
    [R EXCEPT !.event_stream =
        append(@, ActionEvent(tool_name, tool_input, tool_call_id, ts))]

\* a variant that records the error and leaves the stream alone
_record_error_only(R, tool_name, tool_call_id, output, error, ts) ==
    IF error # ""
    THEN [R EXCEPT !.context_engine = record_error(@, tool_name, error)]
    ELSE R

_add_observation_event(R, tool_name, tool_call_id, output, error, ts) ==
    LET logged == [R EXCEPT !.event_stream =
                      append(@, ObservationEvent(tool_name, tool_call_id, output, error, ts))]
    IN  IF error # ""
        THEN [logged EXCEPT !.context_engine = record_error(@, tool_name, error)]
        ELSE logged

\* a variant that tells the plan to the log once only
_inject_plan_event_once(R, ts) ==
    IF R.planner.current_plan = 0 \/ get_latest_plan(R.event_stream) # <<>> THEN R
    ELSE LET plan == CurrentPlan(R.planner)
         IN  [R EXCEPT !.event_stream =
                append(@, PlanEvent(plan.id, plan.title,
                                    [i \in 1..Len(plan.steps) |-> plan.steps[i].description],
                                    [i \in 1..Len(plan.steps) |-> plan.steps[i].status],
                                    plan.current_step_index, plan.is_complete, ts))]

_inject_plan_event(R, ts) ==
    IF R.planner.current_plan = 0 THEN R
    ELSE LET plan == CurrentPlan(R.planner)
         IN  [R EXCEPT !.event_stream =
                append(@, PlanEvent(plan.id, plan.title,
                                    [i \in 1..Len(plan.steps) |-> plan.steps[i].description],
                                    [i \in 1..Len(plan.steps) |-> plan.steps[i].status],
                                    plan.current_step_index, plan.is_complete, ts))]

RECURSIVE AppendAll(_, _)
AppendAll(es, events) ==
    IF events = <<>> THEN es ELSE AppendAll(append(es, Head(events)), Tail(events))

\* _inject_knowledge_events: relevant is what get_relevant_knowledge returned
_inject_knowledge_events(R, relevant, ts) ==
    LET top == SubSeq(relevant, 1, Min(3, Len(relevant)))
    IN  [R EXCEPT !.event_stream =
            AppendAll(@, [i \in 1..Len(top) |->
                KnowledgeEvent(top[i].category, top[i].scope, top[i].content,
                               top[i].priority, ts)])]

\* _inject_datasource_events: relevant is what find_relevant(context, limit=2) returned
_inject_datasource_events(R, relevant, ts) ==
    [R EXCEPT !.event_stream =
        AppendAll(@, [i \in 1..Len(relevant) |->
            DatasourceEvent(relevant[i].id, relevant[i].name, relevant[i].priority, ts)])]

\* the loop of the base agent after a step: the loop ends when the state is
\* FINISHED or the step budget is used up
\* a variant of the loop that goes on whatever the step budget
loop_unbounded(R) ==
    IF R.agent.state = "FINISHED"
    THEN [R EXCEPT !.agent.pc = "done"]
    ELSE [R EXCEPT !.agent.pc = "think"]

loop_next(R) ==
    IF R.agent.state = "FINISHED"
    THEN [R EXCEPT !.agent.pc = "done"]
    ELSE IF R.agent.current_step >= R.agent.max_steps
    THEN [R EXCEPT !.agent.state = "FINISHED", !.agent.pc = "done",
                   !.agent.truncated = TRUE]
    ELSE [R EXCEPT !.agent.pc = "think"]

\* run of the base agent: only an IDLE agent enters the loop, any other
\* state raises
base_run(R) ==
    IF R.agent.state # "IDLE" THEN R
    ELSE loop_next([R EXCEPT !.agent.state = "RUNNING"])

\* the planning part of run: analyze_request and create_plan have replied
plan_request(R, request, response, id, ts) ==
    IF R.agent.plan_created THEN R
    ELSE LET needs_planning == R.planner.auto_plan /\ TextLen(request) > 50
         IN  IF ~needs_planning THEN R
             ELSE LET made == [R EXCEPT !.planner = create_plan(@, request, response, id),
                                        !.agent.plan_created = TRUE]
                      plan == CurrentPlan(made.planner)
                      injected == _inject_plan_event(made, ts)
                  IN  [injected EXCEPT !.context_engine =
                          update_todo(@, [i \in 1..Len(plan.steps) |->
                                              plan.steps[i].description],
                                      plan.current_step_index, <<>>)]

\* a variant of run that leaves the check of the state to the base agent
run_checked_late(R, request, response, id, knowledge, sources, ts) ==
    LET asked == _add_message_event(R, "user", request, ts)
        planned == plan_request(asked, request, response, id, ts)
    IN  base_run(_inject_datasource_events(
                    _inject_knowledge_events(planned, knowledge, ts), sources, ts))

\* ManusAligned.run, up to the first step of the loop; in a state other than
\* IDLE it raises
run(R, request, response, id, knowledge, sources, ts) ==
    LET asked == _add_message_event(R, "user", request, ts)
        planned == plan_request(asked, request, response, id, ts)
        informed == _inject_datasource_events(
                        _inject_knowledge_events(planned, knowledge, ts), sources, ts)
    IN  IF R.agent.state # "IDLE" THEN R
        ELSE IF request = <<>> THEN base_run(R)
        ELSE base_run(informed)

\* ManusAligned.run from IDLE with no plan yet, the LLM call of
\* analyze_request or of create_plan raising: the exception leaves run, with
\* the Message event in the stream and the state as it was
run_raises(R, request, ts) ==
    [_add_message_event(R, "user", request, ts) EXCEPT !.agent.pc = "raised"]

\* ManusAligned.think, the LLM having replied with reply = [content, tool_calls]
think(R, reply, ts) ==
    LET counted == increment_step(R.context_engine)
        plan == CurrentPlan(R.planner)
        recited ==
            IF should_recite(counted) /\ R.planner.current_plan # 0
            THEN update_todo(counted,
                     [i \in 1..Len(plan.steps) |-> plan.steps[i].description],
                     plan.current_step_index,
                     SelectSeq([i \in 1..Len(plan.steps) |-> i - 1],
                               LAMBDA i : plan.steps[i + 1].status = "completed"))
            ELSE counted
        assembled == build_context(recited)
        built == [R EXCEPT !.context_engine = assembled,
                           !.agent.prefix = build_context_prefix(assembled),
                           !.agent.next_step_prompt =
                               JoinParts(<<get_masked_tools_context(assembled),
                                           get_recitation_context(assembled),
                                           NEXT_STEP_PROMPT>>),
                           !.agent.current_step = @ + 1,
                           !.agent.tool_calls = reply.tool_calls,
                           !.agent.cur = 1]
    IN  IF reply.tool_calls # <<>> THEN [built EXCEPT !.agent.pc = "act"]
        ELSE LET said == _add_message_event(built, "assistant", reply.content, ts)
             IN  IF is_plan_complete(said.planner)
                 THEN [said EXCEPT !.agent.state = "FINISHED", !.agent.pc = "done"]
                 ELSE loop_next(said)

\* the base agent when an exception leaves a step
fail(R) == [R EXCEPT !.agent.state = "ERROR", !.agent.pc = "done"]

\* a variant that injects the plan when the tool is dispatched
act_dispatch_with_plan(R, ts) ==
    LET command == R.agent.tool_calls[R.agent.cur]
    IN  IF ~command.valid_json THEN fail(R)
        ELSE [_inject_plan_event(
                 _add_action_event(R, command.name, command.arguments, command.id, ts), ts)
                 EXCEPT !.agent.pc = "await_tool"]

\* ManusAligned.act, one tool call, up to the await of execute_tool
act_dispatch(R, ts) ==
    LET command == R.agent.tool_calls[R.agent.cur]
    IN  IF ~command.valid_json THEN fail(R)
        ELSE [_add_action_event(R, command.name, command.arguments, command.id, ts)
                 EXCEPT !.agent.pc = "await_tool"]

\* the replanning part of act; llm_ok says whether replan's LLM call returns
replan_on_failure(R, tool_name, result, response, id, llm_ok, ts) ==
    IF ~should_replan(R.planner, result) THEN R
    ELSE IF ~llm_ok THEN fail([R EXCEPT !.planner = replan_raises(@)])
    ELSE _inject_plan_event(
            [R EXCEPT !.planner =
                replan(@, <<"Error in ", tool_name, ": ", result>>, response, id)], ts)

\* the progress part of act
advance_on_success(R, tool_name, result, ts) ==
    IF R.planner.current_plan # 0 /\ _step_appears_complete(R, tool_name, result)
    THEN _inject_plan_event([R EXCEPT !.planner = advance_plan(@)], ts)
    ELSE R

\* a variant that takes no tool for a terminal one
_handle_no_tool(R, tool_name) == R

\* the base agent on a tool call of a name in special_tool_names: the loop
\* is to exit after the tool calls of this reply
_handle_special_tool(R, tool_name) ==
    IF tool_name \in special_tool_names
    THEN [R EXCEPT !.agent.terminal = TRUE] ELSE R

\* ManusAligned.act, one tool call, from the return of execute_tool with
\* result to the next tool call or the end of the step
act_observe(R, result, response, id, llm_ok, ts) ==
    LET command == R.agent.tool_calls[R.agent.cur]
        is_error == result # "" /\ StartsWithError(result)
        observed == _add_observation_event(R, command.name, command.id,
                        IF is_error THEN "" ELSE result,
                        IF is_error THEN result ELSE "", ts)
        marked == _handle_special_tool(observed, command.name)
        handled == IF is_error /\ marked.planner.replan_on_error
                   THEN replan_on_failure(marked, command.name, result, response, id,
                                          llm_ok, ts)
                   ELSE IF ~is_error THEN advance_on_success(marked, command.name, result, ts)
                   ELSE marked
    IN  IF handled.agent.state = "ERROR" THEN handled
        ELSE IF handled.agent.cur < Len(handled.agent.tool_calls)
        THEN [handled EXCEPT !.agent.cur = @ + 1, !.agent.pc = "act"]
        ELSE IF handled.agent.terminal
        THEN [handled EXCEPT !.agent.state = "FINISHED", !.agent.pc = "done"]
        ELSE loop_next(handled)

(***************************************************************************)
(* Text search.  A text here is one string; Lower is str.lower() and       *)
(* Occurs(needle, text) is Python's `needle in text` for two lowercase     *)
(* strings, listed for the strings the model uses.                         *)
(***************************************************************************)
Lower(s) ==
    CASE s = "Click Login in the Browser" -> "click login in the browser"
      [] s = "Sort the numbers" -> "sort the numbers"
      [] s = "Browser" -> "browser"
      [] s = "Countries articles" -> "countries articles"
      [] s = "Weather" -> "weather"
      [] s = "OpenWeatherMap" -> "openweathermap"
      [] s = "GitHub API" -> "github api"
      [] s = "Wikipedia API" -> "wikipedia api"
      [] s = "REST Countries" -> "rest countries"
      [] s = "JSONPlaceholder" -> "jsonplaceholder"
      [] s = "Met Office" -> "met office"
      [] s = "Get current weather for a city" -> "get current weather for a city"
      [] s = "Get 5-day weather forecast" -> "get 5-day weather forecast"
      [] s = "Get repository information" -> "get repository information"
      [] s = "Get article summary" -> "get article summary"
      [] s = "Search countries by name" -> "search countries by name"
      [] s = "Get all posts" -> "get all posts"
      [] OTHER -> s

PiecesOf(text) ==
    {text} \cup
    CASE text = "click login in the browser" -> {"browser", "click"}
      [] text = "sort the numbers" -> {"sort"}
      [] text = "countries articles" -> {"countries", "articles"}
      [] text = "openweathermap" -> {"weather"}
      [] text = "rest countries" -> {"countries"}
      [] text = "get current weather for a city" -> {"weather"}
      [] text = "get 5-day weather forecast" -> {"weather", "forecast"}
      [] text = "search countries by name" -> {"countries"}
      [] text = "python_execute" -> {"python", "execute"}
      [] text = "browser_use" -> {"browser", "use"}
      [] OTHER -> {}

Occurs(needle, text) == needle \in PiecesOf(text)

(***************************************************************************)
(* KnowledgeModule (knowledge.py).  An item is [id, scope, triggers,       *)
(* priority, enabled, usage_count]; the knowledge base is a list of items  *)
(* in insertion order.                                                     *)
(***************************************************************************)
KnowledgeItem(id, scope, triggers, priority, enabled) ==
    [id |-> id, scope |-> scope, triggers |-> triggers, priority |-> priority,
     enabled |-> enabled, usage_count |-> 0]

KnowledgeScope ==
    {"browser", "coding", "data_analysis", "file_operations", "web_search",
     "api_interaction", "shell", "general"}

\* list.sort(key=..., reverse=True) and sorted(): a stable sort.  Before(a, b)
\* says that a's key sorts strictly before b's; equal keys keep their order.
StableSort(s, Before(_, _)) ==
    LET rank(i) == 1 + Cardinality({ j \in 1..Len(s) :
                         \/ Before(s[j], s[i])
                         \/ (~Before(s[i], s[j]) /\ j < i) })
    IN  [ p \in 1..Len(s) |-> s[CHOOSE i \in 1..Len(s) : rank(i) = p] ]

Prefix(s, n) == SubSeq(s, 1, IF n < Len(s) THEN n ELSE Len(s))

Filter(s, Keep(_)) == SelectSeq(s, Keep)

\* The scope_tools table of KnowledgeItem.matches.
scope_tools(scope) ==
    CASE scope = "browser" -> {"browser", "browser_use", "web"}
      [] scope = "coding" -> {"python", "code", "execute"}
      [] scope = "data_analysis" -> {"pandas", "data", "analyze"}
      [] scope = "file_operations" -> {"file", "read", "write", "edit"}
      [] scope = "web_search" -> {"search", "google", "bing"}
      [] scope = "api_interaction" -> {"api", "http", "request"}
      [] scope = "shell" -> {"bash", "shell", "terminal"}
      [] OTHER -> {}

\* The same test with the tool compared by substring instead of by equality.
matches_by_substring(item, context, active_tools) ==
    /\ item.enabled
    /\ \/ \E i \in 1..Len(item.triggers) :
             Occurs(Lower(item.triggers[i]), Lower(context))
       \/ \E tool \in active_tools : \E key \in scope_tools(item.scope) :
             Occurs(key, Lower(tool))

\* KnowledgeItem.matches.  active_tools is a set of tool names (None and the
\* empty set behave alike).
matches(item, context, active_tools) ==
    /\ item.enabled
    /\ \/ \E i \in 1..Len(item.triggers) :
             Occurs(Lower(item.triggers[i]), Lower(context))
       \/ (active_tools \cap scope_tools(item.scope)) # {}

\* KnowledgeModule(knowledge_base=[...], max_injections=n) for a list with
\* items in it (given none, the constructor loads its default items).  asked
\* and relevant are the last query put to the module and its answer.
KnowledgeModule(knowledge_base, max_injections) ==
    [knowledge_base |-> knowledge_base, active_scopes |-> {},
     max_injections |-> max_injections,
     asked |-> [context |-> "", tools |-> <<>>], relevant |-> <<>>]

add_knowledge(km, item) ==
    [km EXCEPT !.knowledge_base = Append(@, item)]

remove_knowledge(km, item_id) ==
    LET base == km.knowledge_base
        hits == { i \in 1..Len(base) : base[i].id = item_id }
    IN  IF hits = {} THEN km
        ELSE LET i == CHOOSE h \in hits : \A g \in hits : h <= g
             IN  [km EXCEPT !.knowledge_base =
                     SubSeq(base, 1, i - 1) \o SubSeq(base, i + 1, Len(base))]

activate_scope(km, scope) ==
    [km EXCEPT !.active_scopes = @ \cup {scope}]

\* The same query reading only the first of the tools handed over.
get_relevant_knowledge_first_tool(km, context, tools) ==
    LET target_scopes ==
            IF km.active_scopes # {} THEN km.active_scopes ELSE KnowledgeScope
        first == IF tools = <<>> THEN {} ELSE {tools[1]}
        Relevant(item) ==
            /\ item.enabled
            /\ (item.scope \in target_scopes \/ item.scope = "general")
            /\ matches(item, context, first)
        ByPriority(a, b) == a.priority > b.priority
    IN  Prefix(StableSort(Filter(km.knowledge_base, Relevant), ByPriority),
               km.max_injections)

\* KnowledgeModule.get_relevant_knowledge(context, active_tools), called by
\* the agent with active_tools = set(tool names): tools is the list of names
\* and only the set of its elements reaches the query.
get_relevant_knowledge(km, context, tools) ==
    LET target_scopes ==
            IF km.active_scopes # {} THEN km.active_scopes ELSE KnowledgeScope
        active_tools == { tools[i] : i \in 1..Len(tools) }
        Relevant(item) ==
            /\ item.enabled
            /\ (item.scope \in target_scopes \/ item.scope = "general")
            /\ matches(item, context, active_tools)
        ByPriority(a, b) == a.priority > b.priority
    IN  Prefix(StableSort(Filter(km.knowledge_base, Relevant), ByPriority),
               km.max_injections)

(***************************************************************************)
(* DatasourceModule (datasource.py).  sources is a dict keyed by id, kept  *)
(* here as the list of its values in insertion order.                      *)
(***************************************************************************)
Datasource(id, name, endpoints, priority, tags, enabled) ==
    [id |-> id, name |-> name, endpoints |-> endpoints, priority |-> priority,
     tags |-> tags, enabled |-> enabled, usage_count |-> 0,
     last_used |-> "None"]

\* _load_default_sources: the five sources of a DatasourceModule built with
\* none, each endpoint by its description.
DefaultSources ==
    << Datasource("openweathermap", "OpenWeatherMap",
                  <<"Get current weather for a city",
                    "Get 5-day weather forecast">>, 8,
                  <<"weather", "forecast", "temperature", "climate">>, TRUE),
       Datasource("github", "GitHub API",
                  <<"Get repository information">>, 9,
                  <<"github", "repository", "code", "issues",
                    "pull requests">>, TRUE),
       Datasource("wikipedia", "Wikipedia API",
                  <<"Get article summary">>, 7,
                  <<"wikipedia", "encyclopedia", "knowledge", "articles">>,
                  TRUE),
       Datasource("restcountries", "REST Countries",
                  <<"Search countries by name">>, 7,
                  <<"countries", "geography", "population", "capital">>, TRUE),
       Datasource("jsonplaceholder", "JSONPlaceholder",
                  <<"Get all posts">>, 3,
                  <<"test", "fake", "placeholder", "demo">>, TRUE) >>

\* DatasourceModule().  asked and found are the last find_relevant call and
\* its answer.
DatasourceModule ==
    [sources |-> DefaultSources,
     asked |-> [query |-> "", limit |-> 0], found |-> <<>>]

matches_query(source, query) ==
    LET query_lower == Lower(query)
    IN  \/ Occurs(Lower(source.name), query_lower)
        \/ Occurs(query_lower, Lower(source.name))
        \/ \E i \in 1..Len(source.tags) :
              Occurs(Lower(source.tags[i]), query_lower)
        \/ \E i \in 1..Len(source.endpoints) :
              Occurs(query_lower, Lower(source.endpoints[i]))

\* sources[source.id] = source: a known id keeps its place in the dict.
register(dm, source) ==
    LET hits == { i \in 1..Len(dm.sources) : dm.sources[i].id = source.id }
    IN  IF hits = {} THEN [dm EXCEPT !.sources = Append(@, source)]
        ELSE [dm EXCEPT !.sources =
                 [ i \in 1..Len(@) |-> IF i \in hits THEN source ELSE @[i] ]]

unregister(dm, source_id) ==
    LET Kept(source) == source.id # source_id
    IN  [dm EXCEPT !.sources = Filter(@, Kept)]

find_relevant(dm, query, limit) ==
    LET Relevant(source) == source.enabled /\ matches_query(source, query)
        ByPriority(a, b) == a.priority > b.priority
    IN  Prefix(StableSort(Filter(dm.sources, Relevant), ByPriority), limit)

\* get_datasource_events(context): find_relevant with the default limit of 3,
\* then mark_used() on every source found.
get_datasource_events(dm, context, now) ==
    LET found == find_relevant(dm, context, 3)
        ids == { found[i].id : i \in 1..Len(found) }
    IN  [dm EXCEPT
           !.sources = [ i \in 1..Len(@) |->
                IF @[i].id \in ids
                THEN [@[i] EXCEPT !.usage_count = @ + 1, !.last_used = now]
                ELSE @[i] ],
           !.asked = [query |-> context, limit |-> 3],
           !.found = found]

(***************************************************************************)
(* LLM.ask and LLM.ask_tool under their tenacity decorator (llm.py).  A    *)
(* call is a run of attempts; an attempt returns or raises an exception,   *)
(* named by its class.                                                     *)
(***************************************************************************)
\* The classes an exception is an instance of.  The openai classes are the
\* ones the except clauses of ask tell apart.  TokenLimitExceeded comes from
\* app.exceptions, whose text is not at hand: it is taken to be none of the
\* retried classes, as the error table of the specification has it.
ClassesOf(error) ==
    {error} \cup
    CASE error = "AuthenticationError" -> {"APIError", "OpenAIError", "Exception"}
      [] error = "RateLimitError" -> {"APIError", "OpenAIError", "Exception"}
      [] error = "APIError" -> {"OpenAIError", "Exception"}
      [] error = "ValueError" -> {"Exception"}
      [] OTHER -> {}

\* retry=retry_if_exception_type((OpenAIError, Exception, ValueError))
retry_if_exception_type(error) ==
    ClassesOf(error) \cap {"OpenAIError", "Exception", "ValueError"} # {}

NewLLM ==
    [pc |-> "idle", method |-> "", attempts |-> 0, error |-> "", raised |-> ""]

\* A call begins: the first attempt.
ask(l, method) ==
    [l EXCEPT !.pc = "attempt", !.method = method, !.attempts = 1,
              !.error = "", !.raised = ""]

\* An attempt ends.  outcome is "ok" or the class of the exception raised:
\* the decorator sleeps and tries again if the exception is of a retried
\* type and fewer than stop_after_attempt(6) attempts were made; it raises
\* RetryError after the last attempt, and lets any other exception through.
attempt_ends(l, outcome) ==
    IF outcome = "ok" THEN [l EXCEPT !.pc = "returned"]
    ELSE IF ~retry_if_exception_type(outcome)
    THEN [l EXCEPT !.pc = "raised", !.error = outcome, !.raised = outcome]
    ELSE IF l.attempts >= StopAfterAttempt
    THEN [l EXCEPT !.pc = "raised", !.error = outcome, !.raised = "RetryError"]
    ELSE [l EXCEPT !.pc = "sleeping", !.error = outcome]

\* The backoff sleep ends: the next attempt.
next_attempt(l) == [l EXCEPT !.pc = "attempt", !.attempts = @ + 1]

(***************************************************************************)
(* SandboxManager (sandbox/core/manager.py).  The manager runs on one      *)
(* asyncio loop: a coroutine runs alone from one await to the next, so a   *)
(* step of a task below is the code between two suspension points.  A      *)
(* task is [pc, id, waits, detached, result, current_time, to_cleanup,     *)
(* children]; cleaned is the set of sandboxes whose DockerSandbox.cleanup  *)
(* stopped and removed the container.  An asyncio.Lock is the name of the  *)
(* task that holds it, "" when free.                                       *)
(***************************************************************************)
Put(f, k, v) == [x \in DOMAIN f \cup {k} |-> IF x = k THEN v ELSE f[x]]

Drop(f, k) == [x \in DOMAIN f \ {k} |-> f[x]]

NewTask(pc) ==
    [pc |-> pc, id |-> 0, waits |-> 0, detached |-> FALSE, result |-> "",
     current_time |-> 0, to_cleanup |-> <<>>]

\* SandboxManager(max_sandboxes, idle_timeout): __init__ starts the cleanup
\* loop, the task cl; t1 and t2 are the coroutines of the callers, d1 and d2
\* the tasks that cleanup() creates for the sandboxes 1 and 2.
SandboxManager(max_sandboxes, idle_timeout) ==
    [max_sandboxes |-> max_sandboxes, idle_timeout |-> idle_timeout,
     sandboxes |-> {}, last_used |-> <<>>, locks |-> <<>>,
     global_lock |-> "", active_operations |-> {}, cleaned |-> {},
     is_shutting_down |-> FALSE, next_id |-> 1, now |-> 0,
     tasks |-> [t \in {"t1", "t2", "cl", "d1", "d2"} |->
                  NewTask(IF t = "cl" THEN "idle_start"
                          ELSE IF t \in {"d1", "d2"} THEN "unborn"
                          ELSE "idle")]]

\* A call returns or raises: the caller's coroutine is done; the cleanup
\* loop goes on with the next sandbox of its list.
Returns(m, t, result) ==
    [m EXCEPT !.tasks[t].result = result,
              !.tasks[t].pc = IF t = "cl" THEN "idle_next" ELSE "done"]

\* create_sandbox entered without taking the global lock.
create_unlocked(m, t) ==
    IF Cardinality(m.sandboxes) >= m.max_sandboxes
    THEN Returns(m, t, "RuntimeError: Maximum number of sandboxes ("
                         \o ToString(m.max_sandboxes) \o ") reached")
    ELSE [m EXCEPT !.tasks[t].pc = "create_await"]

\* create_sandbox up to its first await: the global lock is taken (the task
\* waits while another holds it) and the count is tested under it.
create_locked(m, t) ==
    IF m.global_lock # "" THEN m
    ELSE IF Cardinality(m.sandboxes) >= m.max_sandboxes
    THEN Returns(m, t, "RuntimeError: Maximum number of sandboxes ("
                         \o ToString(m.max_sandboxes) \o ") reached")
    ELSE [m EXCEPT !.global_lock = t, !.tasks[t].pc = "create_await"]

\* create_sandbox from the return of ensure_image and sandbox.create, ok
\* telling whether both succeeded, to the release of the global lock.
create_finish(m, t, ok) ==
    IF ~ok
    THEN Returns([m EXCEPT !.global_lock = ""], t,
                 "RuntimeError: Failed to create sandbox")
    ELSE LET sandbox_id == m.next_id
         IN  Returns([m EXCEPT !.sandboxes = @ \cup {sandbox_id},
                               !.last_used = Put(@, sandbox_id, m.now),
                               !.locks = Put(@, sandbox_id, ""),
                               !.next_id = @ + 1,
                               !.global_lock = ""], t, ToString(sandbox_id))

\* sandbox_operation up to its yield: the lock of the sandbox is made if
\* missing and taken (the task waits while another holds it).
operation_enter(m, t) ==
    LET sandbox_id == m.tasks[t].id
    IN  IF sandbox_id \in DOMAIN m.locks /\ m.locks[sandbox_id] # "" THEN m
        ELSE IF sandbox_id \notin m.sandboxes
        THEN Returns([m EXCEPT !.locks = Put(@, sandbox_id, "")], t,
                     "KeyError: Sandbox " \o ToString(sandbox_id) \o " not found")
        ELSE [m EXCEPT !.locks = Put(@, sandbox_id, t),
                       !.active_operations = @ \cup {sandbox_id},
                       !.last_used = Put(@, sandbox_id, m.now),
                       !.tasks[t].pc = "operation_body",
                       !.tasks[t].detached = FALSE]

\* sandbox_operation from the end of the with-body: the finally clause and
\* the release of the lock.  set.remove raises KeyError for a missing id.
operation_exit(m, t) ==
    LET sandbox_id == m.tasks[t].id
        released == IF m.tasks[t].detached THEN m
                    ELSE [m EXCEPT !.locks[sandbox_id] = ""]
    IN  IF sandbox_id \in m.active_operations
        THEN Returns([released EXCEPT !.active_operations = @ \ {sandbox_id}],
                     t, "None")
        ELSE Returns(released, t, "KeyError")

\* _safe_delete_sandbox after its wait: sandbox = self._sandboxes.get(id),
\* and the call of sandbox.cleanup() if there is one.
safe_delete_get(m, t) ==
    IF m.tasks[t].id \in m.sandboxes
    THEN [m EXCEPT !.tasks[t].pc = "delete_cleaning"]
    ELSE Returns(m, t, "None")

\* delete_sandbox and _safe_delete_sandbox up to the first await.
delete_enter(m, t) ==
    LET sandbox_id == m.tasks[t].id
    IN  IF sandbox_id \notin m.sandboxes THEN Returns(m, t, "None")
        ELSE IF sandbox_id \in m.active_operations
        THEN [m EXCEPT !.tasks[t].pc = "delete_sleep", !.tasks[t].waits = 0]
        ELSE safe_delete_get(m, t)

\* _safe_delete_sandbox: one asyncio.sleep(0.5) of its wait loop ends.  The
\* loop is left when the sandbox has no active operation, and after the
\* tenth sleep whether it has one or not.
delete_sleep_ends(m, t) ==
    IF m.tasks[t].id \notin m.active_operations
       \/ m.tasks[t].waits + 1 >= WaitTimes
    THEN safe_delete_get(m, t)
    ELSE [m EXCEPT !.tasks[t].waits = @ + 1]

\* _safe_delete_sandbox: sandbox.cleanup() returns, the container is gone;
\* the global lock is asked for.
delete_cleaned(m, t) ==
    [m EXCEPT !.cleaned = @ \cup {m.tasks[t].id},
              !.tasks[t].pc = "delete_pop"]

\* _safe_delete_sandbox under the global lock: the three pops.  A task that
\* holds the lock popped keeps a lock that is in the dict no longer.
delete_pop(m, t) ==
    LET sandbox_id == m.tasks[t].id
    IN  IF m.global_lock # "" THEN m
        ELSE Returns(
               [m EXCEPT !.sandboxes = @ \ {sandbox_id},
                         !.last_used = Drop(@, sandbox_id),
                         !.locks = Drop(@, sandbox_id),
                         !.tasks = [u \in DOMAIN @ |->
                              IF /\ sandbox_id \in DOMAIN m.locks
                                 /\ m.locks[sandbox_id] = u
                              THEN [@[u] EXCEPT !.detached = TRUE] ELSE @[u]]],
               t, "None")

\* The ids of a dict in the order of its keys, sandboxes being numbered in
\* the order of their creation.
RECURSIVE KeysInOrder(_, _)
KeysInOrder(keys, from) ==
    IF keys = {} THEN <<>>
    ELSE IF from \in keys THEN <<from>> \o KeysInOrder(keys \ {from}, from + 1)
    ELSE KeysInOrder(keys, from + 1)

\* cleanup_loop: the test of the while, and current_time of
\* _cleanup_idle_sandboxes.
idle_start(m) ==
    IF m.is_shutting_down THEN [m EXCEPT !.tasks["cl"].pc = "stopped"]
    ELSE [m EXCEPT !.tasks["cl"].pc = "idle_scan",
                   !.tasks["cl"].current_time = m.now]

\* _cleanup_idle_sandboxes under the global lock: the scan of _last_used.
idle_scan(m) ==
    IF m.global_lock # "" THEN m
    ELSE LET current_time == m.tasks["cl"].current_time
             Idle(sandbox_id) ==
                 /\ sandbox_id \notin m.active_operations
                 /\ current_time - m.last_used[sandbox_id] > m.idle_timeout
         IN  [m EXCEPT !.tasks["cl"].pc = "idle_next",
                       !.tasks["cl"].to_cleanup =
                           SelectSeq(KeysInOrder(DOMAIN m.last_used, 1), Idle)]

\* _cleanup_idle_sandboxes: the loop over to_cleanup, each turn a
\* delete_sandbox call; after the last, the sleep of cleanup_loop.
idle_next(m) ==
    LET todo == m.tasks["cl"].to_cleanup
    IN  IF todo = <<>> THEN [m EXCEPT !.tasks["cl"].pc = "sleeping"]
        ELSE delete_enter([m EXCEPT !.tasks["cl"].id = Head(todo),
                                    !.tasks["cl"].to_cleanup = Tail(todo)],
                          "cl")

\* cleanup_loop: asyncio.sleep(cleanup_interval) ends.
idle_wake(m) == [m EXCEPT !.tasks["cl"].pc = "idle_start"]

\* The task cleanup() creates for a sandbox.
ChildOf(sandbox_id) == IF sandbox_id = 1 THEN "d1" ELSE "d2"

\* cleanup() up to its second await: the flag, and the cancellation of
\* the cleanup loop where it is suspended.  stopped tells whether a
\* sandbox.cleanup() it was awaiting had removed the container.
cleanup_start(m, t, stopped) ==
    LET cl == m.tasks["cl"]
    IN  [m EXCEPT !.is_shutting_down = TRUE,
                  !.cleaned = IF cl.pc = "delete_cleaning" /\ stopped
                              THEN @ \cup {cl.id} ELSE @,
                  !.tasks["cl"].pc = "cancelled",
                  !.tasks[t].pc = "cleanup_ids"]

\* cleanup() under the global lock: the list of the ids, then one task per
\* id, each running _safe_delete_sandbox up to its first await.
RECURSIVE create_tasks(_, _)
create_tasks(m, sandbox_ids) ==
    IF sandbox_ids = <<>> THEN m
    ELSE LET sandbox_id == Head(sandbox_ids)
             d == ChildOf(sandbox_id)
             born == [m EXCEPT !.tasks[d] = [NewTask("born") EXCEPT !.id = sandbox_id]]
             ran == IF sandbox_id \in born.active_operations
                    THEN [born EXCEPT !.tasks[d].pc = "delete_sleep"]
                    ELSE safe_delete_get(born, d)
         IN  create_tasks(ran, Tail(sandbox_ids))

cleanup_ids(m, t) ==
    IF m.global_lock # "" THEN m
    ELSE [create_tasks(m, KeysInOrder(m.sandboxes, 1))
            EXCEPT !.tasks[t].pc = "cleanup_wait"]

\* cleanup() after asyncio.wait(cleanup_tasks, timeout=30.0): the four
\* clear() calls.
cleanup_clear(m, t) ==
    Returns([m EXCEPT !.sandboxes = {}, !.last_used = <<>>, !.locks = <<>>,
                      !.active_operations = {},
                      !.tasks = [u \in DOMAIN @ |->
                           IF \E k \in DOMAIN m.locks : m.locks[k] = u
                           THEN [@[u] EXCEPT !.detached = TRUE] ELSE @[u]]],
            t, "None")

\* The objects beside the agent run, untouched by it.
Detached ==
    /\ knowledge_module =
          KnowledgeModule(<<KnowledgeItem("general_verify", "general",
                                          <<"complete", "done">>, 7, TRUE)>>, 5)
    /\ datasource = DatasourceModule
    /\ llm = NewLLM
    /\ manager = SandboxManager(1, IdleTimeout)

(***************************************************************************)
(* SpecLog: an EventStream under any sequence of append calls.  The events *)
(* appended are one of each kind, and a message of every timestamp.        *)
(***************************************************************************)
SampleEvents ==
    { MessageEvent("user", <<"hello">>, ts) : ts \in 0..MaxClock }
    \cup { ActionEvent("python_execute", <<>>, "call_1", 0),
           ObservationEvent("python_execute", "call_1", "ok", "", 0),
           PlanEvent(1, <<"Plan">>, << <<"Load">> >>, <<"in_progress">>, 0, FALSE, 0),
           KnowledgeEvent("best_practice", "coding", <<"validate">>, 1, 0),
           DatasourceEvent("api1", "Test API", 1, 0),
           SystemEvent("step_complete", <<>>, 0) }

InitLog ==
    /\ Detached
    /\ event_stream \in {NewStream(m) : m \in 1..MaxCap}
    /\ planner = NewPlanner
    /\ context_engine = NewContextEngine
    /\ agent = NewAgent(0)
    /\ clock = 0
    /\ budget = 0
    /\ twin = NewRun(DefaultMaxEvents, 0)

StreamAppend ==
    /\ Len(event_stream.history) < MaxAppends
    /\ \E e \in SampleEvents : event_stream' = append(event_stream, e)
    /\ UNCHANGED <<planner, context_engine, agent, clock, budget, twin,
                   knowledge_module, datasource, llm, manager>>

NextLog == StreamAppend

SpecLog == InitLog /\ [][NextLog]_vars

Range(s) == {s[i] : i \in 1..Len(s)}
Preserved(s) == SelectSeq(s, IsPreserved)
Others(s) == SelectSeq(s, LAMBDA e : ~IsPreserved(e))
Last(s) == s[Len(s)]

\* an append call has just returned
Appended == event_stream'.history # event_stream.history

\* C2: after every append all Plan and System events appended so far are
\* still in the log, and the events of the other kinds retained number at
\* most max(0, max_events - number of Plan/System events).
C2_EvictedUntilCapHolds ==
    /\ \A i \in 1..Len(event_stream.history) :
          IsPreserved(event_stream.history[i])
             => event_stream.history[i] \in Range(event_stream.events)
    /\ Len(Others(event_stream.events))
          <= Max(0, event_stream.max_events - Len(Preserved(event_stream.events)))

\* C3: an append to a log of exactly max_events events, some event of it or
\* the appended one being neither Plan nor System, evicts exactly one event,
\* the oldest one that is neither Plan nor System, and leaves exactly
\* max_events events.
C3_AppendAtCapEvictsOldestOther ==
    [][ LET all == Append(event_stream.events, Last(event_stream'.history))
        IN  (/\ Appended
             /\ Len(event_stream.events) = event_stream.max_events
             /\ Others(all) # <<>>)
            => /\ Range(event_stream'.events) = Range(all) \ {Head(Others(all))}
               /\ Len(event_stream'.events) = event_stream.max_events ]_vars

\* C4: no append leaves the log shorter than it was before the append.
C4_LengthNonDecreasing ==
    [][ Len(event_stream'.events) >= Len(event_stream.events) ]_vars

\* C5: the log is chronological: of any two retained events, the one
\* appended first comes first.
C5_Chronological ==
    \A i, j \in 1..Len(event_stream.events) :
        i < j => event_stream.events[i].seq < event_stream.events[j].seq

\* C6: appending an event whose id already occurs in the log leaves the log
\* as it was, and appending an event with a new id adds one entry for it.
C6_AppendIdempotentOnIds ==
    [][ Appended
          => LET new == Last(event_stream'.history)
             IN  IF \E i \in 1..Len(event_stream.events) :
                        event_stream.events[i].id = new.id
                 THEN event_stream'.events = event_stream.events
                 ELSE new \in Range(event_stream'.events) ]_vars

(***************************************************************************)
(* SpecSer: two EventStreams built by the same sequence of appends of the  *)
(* same events.  Two events are the same when Python's == holds of them:   *)
(* their dict fields hold the same items, in whatever order the items were *)
(* inserted.                                                               *)
(***************************************************************************)
\* the dicts equal to d: every insertion order of its items
SameDicts(d) == {p \in [1..Len(d) -> Range(d)] : DictEq(d, p)}

SampleDict == << <<"a", "x">>, <<"b", "y">> >>

\* pairs of equal events, one for each stream
SamePairs ==
    { <<MessageEvent("user", <<"hello">>, 0), MessageEvent("user", <<"hello">>, 0)>>,
      <<ObservationEvent("python_execute", "call_1", "", "Error: boom", 0),
        ObservationEvent("python_execute", "call_1", "", "Error: boom", 0)>>,
      <<PlanEvent(1, <<"Plan">>, << <<"Load">> >>, <<"in_progress">>, 0, FALSE, 0),
        PlanEvent(1, <<"Plan">>, << <<"Load">> >>, <<"in_progress">>, 0, FALSE, 0)>> }
    \cup { <<ActionEvent("python_execute", d1, "call_1", 0),
             ActionEvent("python_execute", d2, "call_1", 0)>> :
           d1 \in SameDicts(SampleDict), d2 \in SameDicts(SampleDict) }
    \cup { <<SystemEvent("step_complete", d1, 0), SystemEvent("step_complete", d2, 0)>> :
           d1 \in SameDicts(SampleDict), d2 \in SameDicts(SampleDict) }

InitSer ==
    /\ Detached
    /\ \E m \in 1..MaxCap : event_stream = NewStream(m) /\ twin = NewRun(m, 0)
    /\ planner = NewPlanner
    /\ context_engine = NewContextEngine
    /\ agent = NewAgent(0)
    /\ clock = 0
    /\ budget = 0

AppendBoth ==
    /\ Len(event_stream.history) < MaxTwinAppends
    /\ \E pair \in SamePairs :
          /\ event_stream' = append(event_stream, pair[1])
          /\ twin' = [twin EXCEPT !.event_stream = append(@, pair[2])]
    /\ UNCHANGED <<planner, context_engine, agent, clock, budget,
                   knowledge_module, datasource, llm, manager>>

NextSer == AppendBoth

SpecSer == InitSer /\ [][NextSer]_vars

\* C7: two logs built by the same sequence of appends of the same events
\* serialize to the same text.
C7_SerializeDeterministic == serialize(event_stream) = serialize(twin.event_stream)

\* two logs whose entries are equal events with dicts filled in different orders
C7_Witness ==
    /\ Len(event_stream.events) >= 2
    /\ \E i \in 1..Len(event_stream.events) :
          /\ event_stream.events[i].type = "action"
          /\ event_stream.events[i].tool_input # twin.event_stream.events[i].tool_input
          /\ DictEq(event_stream.events[i].tool_input,
                    twin.event_stream.events[i].tool_input)

(***************************************************************************)
(* SpecPlan: a Planner under any sequence of create_plan, advance_plan,    *)
(* update_step_status and replan calls.                                    *)
(***************************************************************************)
PlanIds == 1..NumPlanIds

ShortRequest == <<"List files in /tmp then print their count.">>
LongRequest == <<"Collect the weather data of every city and write a report">>
Requests == {ShortRequest, LongRequest}

Line(head, marker, body) == [head |-> head, marker |-> marker, body |-> body]

\* LLM replies to a planning prompt: nothing parseable, a full plan, and a
\* single step carrying a status marker
Responses ==
    { <<Line("", "", <<"I cannot help with that">>)>>,
      <<Line("TITLE:", "", <<"Count files">>), Line("OBJECTIVE:", "", <<"Know the count">>),
        Line("", "", <<"STEPS:">>), Line("N.", "", <<"List the files">>),
        Line("N.", "", <<"Count them">>)>>,
      <<Line("N.", "[ ]", <<"Retry the task">>)>> }

InitPlan ==
    /\ Detached
    /\ event_stream = NewStream(DefaultMaxEvents)
    /\ planner = NewPlanner
    /\ context_engine = NewContextEngine
    /\ agent = NewAgent(0)
    /\ clock = 0
    /\ budget = MaxUpdates
    /\ twin = NewRun(DefaultMaxEvents, 0)

PlanCreate ==
    /\ Len(planner.plans) < MaxPlans
    /\ \E req \in Requests, resp \in Responses, id \in PlanIds :
          planner' = create_plan(planner, req, resp, id)
    /\ UNCHANGED <<event_stream, context_engine, agent, clock, budget, twin,
                   knowledge_module, datasource, llm, manager>>

PlanAdvance ==
    /\ planner.current_plan # 0
    /\ CurrentPlan(planner).current_step_index < MaxIndex
    /\ planner' = advance_plan(planner)
    /\ UNCHANGED <<event_stream, context_engine, agent, clock, budget, twin,
                   knowledge_module, datasource, llm, manager>>

PlanUpdateStatus ==
    /\ planner.current_plan # 0
    /\ budget > 0
    /\ \E i \in 0..(Len(CurrentPlan(planner).steps) - 1), st \in StepStatus :
          planner' = update_step_status(planner, i, st)
    /\ budget' = budget - 1
    /\ UNCHANGED <<event_stream, context_engine, agent, clock, twin,
                   knowledge_module, datasource, llm, manager>>

PlanReplan ==
    /\ planner.current_plan # 0
    /\ Len(planner.plans) < MaxPlans
    /\ \E resp \in Responses, id \in PlanIds :
          planner' = replan(planner, ShortRequest, resp, id)
    /\ UNCHANGED <<event_stream, context_engine, agent, clock, budget, twin,
                   knowledge_module, datasource, llm, manager>>

PlanReplanRaises ==
    /\ planner.current_plan # 0
    /\ planner' = replan_raises(planner)
    /\ UNCHANGED <<event_stream, context_engine, agent, clock, budget, twin,
                   knowledge_module, datasource, llm, manager>>

NextPlan ==
    \/ PlanCreate
    \/ PlanAdvance
    \/ PlanUpdateStatus
    \/ PlanReplan
    \/ PlanReplanRaises

SpecPlan == InitPlan /\ [][NextPlan]_vars

InProgressCount(plan) == Len(SelectSeq(plan.steps, LAMBDA st : st.status = "in_progress"))

\* C9: at most one step of the current plan is InProgress.
C9_SingleInProgress ==
    planner.current_plan # 0 => InProgressCount(CurrentPlan(planner)) <= 1

IsTerminal(status) == status \in {"completed", "skipped"}

\* the first step that is neither Completed nor Skipped, from 0; Len if none
FirstNonTerminal(plan) ==
    LET open == {i \in 1..Len(plan.steps) : ~IsTerminal(plan.steps[i].status)}
    IN  IF open = {} THEN Len(plan.steps)
        ELSE (CHOOSE i \in open : \A j \in open : i <= j) - 1

\* C10: in every plan, current or archived, current_step_index is within
\* 0..len(steps), it points to an InProgress step or to the first
\* non-terminal step or is len(steps) with the plan complete, and a complete
\* plan has current_step_index = len(steps).
C10_CurrentIndexInvariant ==
    \A k \in 1..Len(planner.plans) :
        LET plan == planner.plans[k]
            i == plan.current_step_index
        IN  /\ 0 <= i /\ i <= Len(plan.steps)
            /\ plan.is_complete => i = Len(plan.steps)
            /\ \/ i = Len(plan.steps) /\ plan.is_complete
               \/ i < Len(plan.steps) /\ plan.steps[i + 1].status = "in_progress"
               \/ i < Len(plan.steps) /\ i = FirstNonTerminal(plan)

\* the transitions of the step state machine
LegalTransition(from, to) ==
    \/ from = "pending" /\ to = "in_progress"
    \/ from = "in_progress" /\ to \in {"completed", "blocked", "skipped"}
    \/ from = "blocked" /\ to = "in_progress"

\* an update_step_status call has just returned
StatusUpdated == budget' = budget - 1

\* C11: update_step_status changes the status of a step only by a legal
\* transition of the step state machine; for any other pair of current and
\* requested status the status of the step stays as it was.
C11_SetStatusOnlyLegal ==
    [][ StatusUpdated =>
          \A i \in 1..Len(CurrentPlan(planner).steps) :
             LET from == CurrentPlan(planner).steps[i].status
                 to == CurrentPlan(planner').steps[i].status
             IN  to # from => LegalTransition(from, to) ]_vars

\* C12: a step that is Completed or Skipped keeps its status through every
\* later operation (advance, update_step_status, replan), in the current plan
\* and in the archived ones.
C12_TerminalStatusesStay ==
    [][ \A p \in 1..Len(planner.plans) :
          \A i \in 1..Len(planner.plans[p].steps) :
             IsTerminal(planner.plans[p].steps[i].status)
                => planner'.plans[p].steps[i].status = planner.plans[p].steps[i].status ]_vars

\* C40: replan is atomic with respect to failure: when the LLM call inside
\* replan fails, the planner is left as it was before the call.
C40_FailedReplanChangesNothing ==
    [][PlanReplanRaises => planner' = planner]_vars

\* C13: after every successful replan current_plan is a newly created Plan
\* whose id differs from the id of every earlier plan, the plan that was
\* current is in plan_history with is_complete set, and the new plan is the
\* last element of plan_history.
C13_ReplanInstallsFreshPlan ==
    [][ PlanReplan =>
          /\ planner'.current_plan = Len(planner.plans) + 1
          /\ \A p \in 1..Len(planner.plans) :
                planner.plans[p].id # CurrentPlan(planner').id
          /\ planner.current_plan \in Range(planner'.plan_history)
          /\ planner'.plans[planner.current_plan].is_complete
          /\ Last(planner'.plan_history) = planner'.current_plan ]_vars

\* the descriptions of the steps of plan, in order
Descriptions(plan) == [i \in 1..Len(plan.steps) |-> plan.steps[i].description]

\* parse_plan(render_plan(P)): the pseudocode of P read back by the parser,
\* with the objective of P as the request it falls back on
ParsedBack(P) == _parse_plan_response(P.objective, ReadLines(to_pseudocode(P)), P.id)

\* C30: reading back the pseudocode of the current plan gives a plan of the
\* same title, the same objective and the same step descriptions in the
\* same order, whichever step is current and whatever the statuses are.
C30_PseudocodeRoundTrip ==
    planner.current_plan # 0 =>
        /\ ParsedBack(CurrentPlan(planner)).title = CurrentPlan(planner).title
        /\ ParsedBack(CurrentPlan(planner)).objective = CurrentPlan(planner).objective
        /\ Descriptions(ParsedBack(CurrentPlan(planner))) = Descriptions(CurrentPlan(planner))

(***************************************************************************)
(* SpecAgent: one agent run.  The request, the replies of the LLM and the  *)
(* results of the tools are inputs; the clock is what datetime.utcnow()    *)
(* returns.                                                                *)
(***************************************************************************)
Self ==
    [event_stream |-> event_stream, planner |-> planner,
     context_engine |-> context_engine, agent |-> agent]

Becomes(R) ==
    /\ event_stream' = R.event_stream
    /\ planner' = R.planner
    /\ context_engine' = R.context_engine
    /\ agent' = R.agent

ToolCall(id, name, valid_json) ==
    [id |-> id, name |-> name, arguments |-> << <<"path", "/tmp">> >>,
     valid_json |-> valid_json]

Replies ==
    { [content |-> <<"All done.">>, tool_calls |-> <<>>],
      [content |-> <<>>, tool_calls |-> <<ToolCall("call_1", "python_execute", TRUE)>>],
      [content |-> <<>>, tool_calls |-> <<ToolCall("call_1", "list_files", TRUE),
                                          ToolCall("call_2", "terminate", TRUE)>>],
      [content |-> <<>>, tool_calls |-> <<ToolCall("call_1", "python_execute", FALSE)>>] }

ToolResults == {"a.txt b.txt", "done", "Error: network unreachable", ""}

Briefings ==
    { [knowledge |-> <<>>, sources |-> <<>>],
      [knowledge |-> << [category |-> "best_practice", scope |-> "coding",
                         content |-> <<"validate">>, priority |-> 1] >>,
       sources |-> << [id |-> "api1", name |-> "Test API", priority |-> 1] >>] }

InitAgent ==
    /\ Detached
    /\ event_stream = NewStream(DefaultMaxEvents)
    /\ planner = NewPlanner
    /\ context_engine = AgentContextEngine
    /\ agent \in {NewAgent(n) : n \in 0..MaxSteps}
    /\ clock = 0
    /\ budget = MaxMisuse
    /\ twin = NewRun(DefaultMaxEvents, 0)

AgentRun ==
    /\ agent.pc = "idle"
    /\ \E req \in Requests, resp \in Responses, id \in PlanIds, b \in Briefings :
          Becomes(run(Self, req, resp, id, b.knowledge, b.sources, clock))
    /\ UNCHANGED <<clock, budget, twin, knowledge_module, datasource, llm, manager>>

AgentRunRaises ==
    /\ agent.pc = "idle"
    /\ ~agent.plan_created
    /\ \E req \in Requests : Becomes(run_raises(Self, req, clock))
    /\ UNCHANGED <<clock, budget, twin, knowledge_module, datasource, llm, manager>>

\* run called again on the agent while it is not IDLE
AgentRunMisuse ==
    /\ agent.state # "IDLE"
    /\ budget > 0
    /\ \E req \in Requests :
          Becomes(run(Self, req, <<>>, 1, <<>>, <<>>, clock))
    /\ budget' = budget - 1
    /\ UNCHANGED <<clock, twin, knowledge_module, datasource, llm, manager>>

AgentThink ==
    /\ agent.pc = "think"
    /\ \E reply \in Replies : Becomes(think(Self, reply, clock))
    /\ UNCHANGED <<clock, budget, twin, knowledge_module, datasource, llm, manager>>

AgentActDispatch ==
    /\ agent.pc = "act"
    /\ Becomes(act_dispatch(Self, clock))
    /\ UNCHANGED <<clock, budget, twin, knowledge_module, datasource, llm, manager>>

AgentActObserve ==
    /\ agent.pc = "await_tool"
    /\ \E result \in ToolResults, resp \in Responses, id \in PlanIds, llm_ok \in BOOLEAN :
          Becomes(act_observe(Self, result, resp, id, llm_ok, clock))
    /\ UNCHANGED <<clock, budget, twin, knowledge_module, datasource, llm, manager>>

Tick ==
    /\ clock < MaxClock
    /\ agent.pc \notin {"done", "raised"}
    /\ clock' = clock + 1
    /\ UNCHANGED <<event_stream, planner, context_engine, agent, budget, twin,
                   knowledge_module, datasource, llm, manager>>

NextAgent ==
    \/ AgentRun
    \/ AgentRunRaises
    \/ AgentRunMisuse
    \/ AgentThink
    \/ AgentActDispatch
    \/ AgentActObserve
    \/ Tick

SpecAgent == InitAgent /\ [][NextAgent]_vars

\* the Observation events of log that answer the Action at position i:
\* those with its tool_call_id between it and the next Action
Answers(log, i) ==
    {j \in (i + 1)..Len(log) :
        /\ log[j].type = "observation"
        /\ log[j].tool_call_id = log[i].tool_call_id
        /\ \A k \in (i + 1)..(j - 1) : log[k].type # "action"}

\* C1: in the agent loop every Action event is answered by exactly one
\* Observation event with the same tool_call_id, appended right after the tool
\* returns and before the next Action event; the only Action without its
\* Observation is the one whose tool is running.  Every Observation event
\* directly follows the Action event it answers, so the Observations are in
\* the order of the Actions.
C1_ActionObservationPairing ==
    LET log == event_stream.events
    IN  /\ \A i \in 1..Len(log) : log[i].type = "action" =>
              \/ i = Len(log) /\ agent.pc = "await_tool"
              \/ Answers(log, i) = {i + 1}
        /\ \A j \in 1..Len(log) : log[j].type = "observation" =>
              /\ j > 1
              /\ log[j - 1].type = "action"
              /\ log[j - 1].tool_call_id = log[j].tool_call_id
              /\ log[j - 1].tool_name = log[j].tool_name

\* one reply's two tool calls have both been dispatched and answered, the
\* first one failing
C1_Witness ==
    LET log == event_stream.events
    IN  /\ agent.pc # "await_tool"
        /\ \E i \in 1..Len(log), j \in 1..Len(log) :
              /\ i < j
              /\ log[i].type = "action" /\ log[i].tool_call_id = "call_1"
              /\ log[i + 1].type = "observation" /\ log[i + 1].error # ""
              /\ log[j].type = "action" /\ log[j].tool_call_id = "call_2"
              /\ Answers(log, j) # {}

\* run has just been called on the IDLE agent
RunCalled == agent.pc = "idle" /\ agent'.pc # "idle"

\* C14: run, called from IDLE with a request and no plan yet, plans whatever
\* the length of the request: the log then starts with the Message(user)
\* event followed by the Plan event of the new current plan, no Action event
\* before it, and the todo recitation holds the steps of that plan.
C14_RunPlansEveryRequest ==
    [][ RunCalled =>
          LET log == event_stream'.events
          IN  /\ Len(log) >= 2
              /\ log[1].type = "message" /\ log[1].role = "user"
              /\ log[2].type = "plan"
              /\ planner'.current_plan # 0
              /\ log[2].plan_id = CurrentPlan(planner').id
              /\ Len(context_engine'.todo.items) = Len(CurrentPlan(planner').steps) ]_vars

\* the reply has no line that parses as a numbered step
NoStepParsed(response) ==
    \A i \in 1..Len(response) : ~(response[i].head = "N." /\ response[i].body # <<>>)

\* C15: planning always yields a usable plan.  After run has been called
\* with a request that is planned, the current plan exists, has at least one
\* step and step 0 is InProgress, and the run goes on (the agent has left
\* IDLE), also when a planning call of the LLM failed; when the reply had no
\* parseable numbered step the plan is the default three-step plan.
C15_PlanningAlwaysYieldsPlan ==
    [][ (RunCalled /\ TextLen(event_stream'.events[1].content) > 50) =>
          /\ planner'.current_plan # 0
          /\ Len(CurrentPlan(planner').steps) >= 1
          /\ CurrentPlan(planner').steps[1].status = "in_progress"
          /\ agent'.state # "IDLE"
          /\ \A req \in Requests, resp \in Responses, id \in PlanIds, b \in Briefings :
                (/\ Becomes(run(Self, req, resp, id, b.knowledge, b.sources, clock))
                 /\ NoStepParsed(resp))
                => [i \in 1..Len(CurrentPlan(planner').steps) |->
                       CurrentPlan(planner').steps[i].description] = DefaultSteps ]_vars

\* C16: run called while the agent is not IDLE raises and changes nothing:
\* no event is appended, and the planner, the context engine and the state
\* of the agent are as before.
C16_RunOutsideIdleHasNoEffect ==
    [][ (agent.state # "IDLE" /\ budget' = budget - 1)
          => UNCHANGED <<event_stream, planner, context_engine, agent>> ]_vars

\* run has been called on a RUNNING agent whose tool is executing
C16_Witness ==
    /\ budget < MaxMisuse
    /\ agent.state = "RUNNING"
    /\ agent.pc = "await_tool"
    /\ event_stream.events # <<>>

\* the run has ended: run has returned or raised
RunEnded(a) == a.pc \in {"done", "raised"}

\* a measure of what is left of the run of agent a: the iterations of the
\* loop the budget allows, and within the iteration the tool calls of the
\* reply still to dispatch and to answer
StepsLeft(a) ==
    CASE RunEnded(a) -> 0
      [] a.pc = "idle" -> (a.max_steps + 1) * 6 + 1
      [] a.pc = "think" -> (a.max_steps - a.current_step) * 6
      [] a.pc = "act" ->
            (a.max_steps - a.current_step) * 6 + 2 * (Len(a.tool_calls) - a.cur) + 3
      [] a.pc = "await_tool" ->
            (a.max_steps - a.current_step) * 6 + 2 * (Len(a.tool_calls) - a.cur) + 2

\* agent a, with context engine ce and stream es, is within its step budget
WithinBudget(a, ce, es) ==
    /\ a.current_step <= a.max_steps
    /\ ce.step_count <= 2 * a.max_steps
    /\ StepsLeft(a) >= 0
    /\ RunEnded(a) \/ a.pc \in {"idle", "think"}
          \/ (a.pc \in {"act", "await_tool"} /\ a.cur \in 1..Len(a.tool_calls))
    /\ a.truncated => a.state = "FINISHED" /\ a.pc = "done"
    /\ (a.pc = "done" /\ a.current_step >= a.max_steps) => a.state \in {"FINISHED", "ERROR"}
    /\ (a.max_steps = 0 /\ a.pc \notin {"idle", "raised"})
          => /\ a.state = "FINISHED"
             /\ a.truncated
             /\ ce.step_count = 0
             /\ \A i \in 1..Len(es.history) : es.history[i].type # "action"

\* C17: every run ends, after at most max_steps iterations of the think/act
\* loop: until the run has ended a step of it can be taken, and every step
\* of the run decreases what is left of it; a run that ends with the step
\* budget used up ends FINISHED with the truncation indication; with
\* max_steps = 0 the loop makes no LLM call, no Action event is appended and
\* the agent is FINISHED.
C17_RunTerminatesWithinBudget ==
    [][ /\ WithinBudget(agent, context_engine, event_stream)
        /\ WithinBudget(agent', context_engine', event_stream')
        /\ agent' # agent => StepsLeft(agent') < StepsLeft(agent) ]_vars

\* C17 as stated: as above, and with max_steps = 0 no LLM call at all is
\* made before FINISHED, so the planner has not been asked for a plan either.
C17_NoLlmCallWithoutBudget ==
    [][ /\ WithinBudget(agent', context_engine', event_stream')
        /\ agent' # agent => StepsLeft(agent') < StepsLeft(agent)
        /\ (agent'.max_steps = 0 /\ agent'.pc = "done") => planner'.plans = <<>> ]_vars

\* a run of two steps has used up its budget with a tool call answered in
\* the second one
C17_Witness ==
    /\ agent.max_steps = MaxSteps
    /\ agent.current_step = MaxSteps
    /\ agent.truncated
    /\ event_stream.events # <<>>
    /\ Last(event_stream.events).type = "observation"

\* a terminal tool has been invoked: its Observation event is in the stream
TerminalInvoked(es) ==
    \E i \in 1..Len(es.history) :
        /\ es.history[i].type = "observation"
        /\ es.history[i].tool_name \in special_tool_names

InLoop(log, i) == \E k \in 1..(i - 1) : log[k].type = "action"

\* C19: every Plan event appended inside the step loop directly follows the
\* Observation event of the tool call that triggered it, so it comes before
\* the Action event of the next tool call: after a failed call it is the
\* event of the plan replan made, after a successful one the event of the
\* plan advanced.
C19_PlanEventAfterItsObservation ==
    LET log == event_stream.events
    IN  \A i \in 1..Len(log) :
           (log[i].type = "plan" /\ InLoop(log, i)) =>
              /\ log[i - 1].type = "observation"
              /\ log[i - 1].error # "" => log[i].current_step_index = 0
              /\ log[i - 1].error = "" => log[i].current_step_index >= 1

\* a failed call was followed by the Plan event of the replan, a successful
\* one by the Plan event of the advance, and the next tool call came after
C19_Witness ==
    LET log == event_stream.events
    IN  \E i \in 1..Len(log), j \in 1..Len(log), k \in 1..Len(log) :
           /\ i > 1 /\ j > 1 /\ k > 1
           /\ log[i].type = "plan" /\ log[i - 1].type = "observation"
           /\ log[i - 1].error # ""
           /\ log[j].type = "plan" /\ log[j - 1].type = "observation"
           /\ log[j - 1].error = ""
           /\ log[k].type = "action" /\ log[k - 1].type = "plan"

\* the Plan event e tells the state of the plan
TellsPlan(e, plan) ==
    /\ e.plan_id = plan.id
    /\ e.step_statuses = [i \in 1..Len(plan.steps) |-> plan.steps[i].status]
    /\ e.current_step_index = plan.current_step_index
    /\ e.is_complete = plan.is_complete

\* C38: at the start of every think/act iteration of an agent with a
\* current plan, the latest Plan event of the log tells the plan as it is:
\* its id, the statuses of its steps, its current_step_index and its
\* complete flag.
C38_LatestPlanEventTellsPlan ==
    (agent.pc = "think" /\ planner.current_plan # 0) =>
        LET latest == get_latest_plan(event_stream)
        IN  /\ latest # <<>>
            /\ TellsPlan(latest[1], CurrentPlan(planner))

\* an iteration starts after a failed tool call had the plan replaced, the
\* log holding the Plan events of both plans
C38_Witness ==
    /\ agent.pc = "think"
    /\ agent.current_step >= 1
    /\ planner.current_plan > 1
    /\ Len(get_by_type(event_stream, "plan")) >= 2

\* a tool call has just failed: the step appended its Observation event,
\* with an error
ToolCallFailed ==
    /\ Len(event_stream'.history) > Len(event_stream.history)
    /\ event_stream'.history[Len(event_stream.history) + 1].type = "observation"
    /\ event_stream'.history[Len(event_stream.history) + 1].error # ""

\* C20: when a tool call fails during a run with replan_on_error set, the
\* planner replans: a new plan with at least one step is current, its Plan
\* event is the last event of the log, and the loop goes on with the next
\* tool call or the next step.
C20_FailureReplansAndContinues ==
    [][ (ToolCallFailed /\ planner.replan_on_error) =>
          /\ Len(planner'.plans) = Len(planner.plans) + 1
          /\ planner'.current_plan = Len(planner'.plans)
          /\ Len(CurrentPlan(planner').steps) >= 1
          /\ Last(event_stream'.events).type = "plan"
          /\ Last(event_stream'.events).plan_id = CurrentPlan(planner').id
          /\ agent'.state # "ERROR"
          /\ agent'.pc \in {"act", "think", "done"} ]_vars

\* a tool call has just returned: the step appended its Observation event
ToolCallObserved ==
    /\ Len(event_stream'.history) > Len(event_stream.history)
    /\ event_stream'.history[Len(event_stream.history) + 1].type = "observation"

\* the tool call succeeded and its observation text has a success lexeme
SucceededWithLexeme ==
    LET obs == event_stream'.history[Len(event_stream.history) + 1]
    IN  /\ obs.error = ""
        /\ IndicatorsIn(obs.output)
              \cap {"success", "completed", "done", "created", "updated"} # {}

\* C21: a tool call that succeeded with a success lexeme in its observation
\* advances the plan by exactly one step and injects one Plan event showing
\* it; any other tool call leaves current_step_index and the step statuses
\* of the plan that was current unchanged.
C21_AdvanceIffSuccessLexeme ==
    [][ ToolCallObserved =>
          IF SucceededWithLexeme
          THEN /\ planner.current_plan # 0
               /\ planner'.current_plan = planner.current_plan
               /\ CurrentPlan(planner').current_step_index
                    = CurrentPlan(planner).current_step_index + 1
               /\ Len(event_stream'.history) = Len(event_stream.history) + 2
               /\ Last(event_stream'.history).type = "plan"
               /\ Last(event_stream'.history).plan_id = CurrentPlan(planner').id
               /\ Last(event_stream'.history).current_step_index
                    = CurrentPlan(planner').current_step_index
          ELSE planner.current_plan # 0 =>
               /\ planner'.plans[planner.current_plan].current_step_index
                    = CurrentPlan(planner).current_step_index
               /\ planner'.plans[planner.current_plan].steps
                    = CurrentPlan(planner).steps ]_vars

\* text has the line that opens the block
HasBlock(text, opening) == \E i \in 1..Len(text) : text[i] = <<opening>>

\* think has just emitted the prompt of an iteration
PromptEmitted == agent'.current_step = agent.current_step + 1

\* text has the line of the error-retention block for the error e
ListsError(text, e) ==
    /\ HasBlock(text, "[PREVIOUS ERRORS - Avoid repeating these mistakes:]")
    /\ \E i \in 1..Len(text) : text[i] = <<"- ", e.tool_name, ": ", e.error_message>>

\* C24: a failed tool call is recorded as the last entry of the error ring,
\* and every prompt emitted afterwards lists, in the error-retention block,
\* each of the last summary_threshold recorded errors as "- <tool>: <error>".
C24_ErrorsRetainedInPrompts ==
    /\ [][ ToolCallFailed =>
             LET obs == event_stream'.history[Len(event_stream.history) + 1]
             IN  /\ context_engine'.errors # <<>>
                 /\ Last(context_engine'.errors)
                      = [tool_name |-> obs.tool_name, error_message |-> obs.error] ]_vars
    /\ [][ PromptEmitted =>
             LET recent == PyLast(context_engine'.errors, SummaryThreshold)
             IN  \A k \in 1..Len(recent) :
                    \/ ListsError(agent'.prefix, recent[k])
                    \/ ListsError(agent'.next_step_prompt, recent[k]) ]_vars

(***************************************************************************)
(* SpecRing: a ContextEngine under any sequence of record_error calls.     *)
(* budget counts the calls, and the n-th call records the message n.       *)
(***************************************************************************)
RingTools == {"python_execute", "browser_use"}

InitRing ==
    /\ Detached
    /\ event_stream = NewStream(DefaultMaxEvents)
    /\ planner = NewPlanner
    /\ context_engine = NewContextEngine
    /\ agent = NewAgent(0)
    /\ clock = 0
    /\ budget = 0
    /\ twin = NewRun(DefaultMaxEvents, 0)

RingRecordError ==
    /\ budget < MaxRecords
    /\ \E tool \in RingTools :
          context_engine' = record_error(context_engine, tool, ToString(budget + 1))
    /\ budget' = budget + 1
    /\ UNCHANGED <<event_stream, planner, agent, clock, twin,
                   knowledge_module, datasource, llm, manager>>

NextRing == RingRecordError

SpecRing == InitRing /\ [][NextRing]_vars

\* C25: after any sequence of record_error calls the error ring holds at
\* most max_retained entries, and they are the most recently recorded
\* errors, in the order they were recorded.
C25_ErrorRingBounded ==
    LET errors == context_engine.errors
    IN  /\ Len(errors) <= MaxRetained
        /\ Len(errors) = Min(budget, MaxRetained)
        /\ \A i \in 1..Len(errors) :
              errors[i].error_message = ToString(budget - Len(errors) + i)

\* more errors were recorded than the ring retains
C25_Witness ==
    /\ budget > MaxRetained
    /\ Len(context_engine.errors) = MaxRetained
    /\ context_engine.errors[1].error_message = ToString(budget - MaxRetained + 1)

(***************************************************************************)
(* SpecCtx: the ContextEngine of an agent under any sequence of mask_tool, *)
(* unmask_tool, record_error, update_todo and build_context calls, and of  *)
(* prefix changes that pass check_prefix_stability.  agent.prefix is the   *)
(* prefix that the last build_context returned.                            *)
(***************************************************************************)
CtxTools == {"browser_use", "python_execute"}
CtxReasons == {"no GUI", ""}
CtxPrefixes == {system_prompt, << <<"ANOTHER_SYSTEM_PROMPT">> >>}

InitCtx ==
    /\ Detached
    /\ event_stream = NewStream(DefaultMaxEvents)
    /\ planner = NewPlanner
    /\ context_engine = AgentContextEngine
    /\ agent = NewAgent(0)
    /\ clock = 0
    /\ budget = 0
    /\ twin = NewRun(DefaultMaxEvents, 0)

CtxMaskTool ==
    /\ \E tool \in CtxTools, reason \in CtxReasons :
          context_engine' = mask_tool(context_engine, tool, reason)
    /\ UNCHANGED <<event_stream, planner, agent, clock, budget, twin,
                   knowledge_module, datasource, llm, manager>>

CtxUnmaskTool ==
    /\ \E tool \in CtxTools : context_engine' = unmask_tool(context_engine, tool)
    /\ UNCHANGED <<event_stream, planner, agent, clock, budget, twin,
                   knowledge_module, datasource, llm, manager>>

CtxRecordError ==
    /\ Len(context_engine.errors) < MaxCtxErrors
    /\ context_engine' = record_error(context_engine, "python_execute",
                                      "Error: network unreachable")
    /\ UNCHANGED <<event_stream, planner, agent, clock, budget, twin,
                   knowledge_module, datasource, llm, manager>>

CtxUpdateTodo ==
    /\ \E done \in {<<>>, <<0>>} :
          context_engine' = update_todo(context_engine,
                                << <<"List the files">>, <<"Count them">> >>,
                                Len(done), done)
    /\ UNCHANGED <<event_stream, planner, agent, clock, budget, twin,
                   knowledge_module, datasource, llm, manager>>

CtxChangePrefix ==
    /\ \E new_prefix \in CtxPrefixes :
          /\ check_prefix_stability(context_engine, new_prefix)
          /\ context_engine' = set_stable_prefix(context_engine, new_prefix)
    /\ UNCHANGED <<event_stream, planner, agent, clock, budget, twin,
                   knowledge_module, datasource, llm, manager>>

CtxBuildContext ==
    /\ context_engine.step_count < MaxEmits
    /\ context_engine' = build_context(context_engine)
    /\ agent' = [agent EXCEPT !.prefix = build_context_prefix(context_engine')]
    /\ UNCHANGED <<event_stream, planner, clock, budget, twin,
                   knowledge_module, datasource, llm, manager>>

NextCtx ==
    \/ CtxMaskTool
    \/ CtxUnmaskTool
    \/ CtxRecordError
    \/ CtxUpdateTodo
    \/ CtxChangePrefix
    \/ CtxBuildContext

SpecCtx == InitCtx /\ [][NextCtx]_vars

\* the unavailable-tools block of ce has this line
Listed(ce, line) ==
    \E i \in 1..Len(get_masked_tools_context(ce)) :
        get_masked_tools_context(ce)[i] = line

\* the mask entries of the tools other than tool_name
OtherMasks(ce, tool_name) ==
    SelectSeq(ce.tool_masks, LAMBDA m : m.tool_name # tool_name)

\* ce and after differ in nothing but the mask entry of tool_name
OnlyMaskChanged(ce, after, tool_name) ==
    /\ after.system_prefix = ce.system_prefix
    /\ after.prefix_hash = ce.prefix_hash
    /\ after.step_count = ce.step_count
    /\ after.errors = ce.errors
    /\ after.todo = ce.todo
    /\ OtherMasks(after, tool_name) = OtherMasks(ce, tool_name)

\* tool_name is masked in ce
Masked(ce, tool_name) ==
    MaskAt(ce, tool_name) # 0 /\ ce.tool_masks[MaskAt(ce, tool_name)].state = "masked"

\* the line of a masked tool, as the claim has it
MaskLine(tool_name, reason) == <<"- ", tool_name, " (", reason, ")">>

\* C26 as stated: mask_tool and unmask_tool change only the mask entry of
\* the tool, the stable prefix and its digest stay as they were, and a
\* masked tool is listed as "- <tool> (<reason>)", whatever the reason,
\* until it is unmasked.
C26_MaskListsToolWithReason ==
    \A tool \in CtxTools, reason \in CtxReasons :
        LET masked == mask_tool(context_engine, tool, reason)
        IN  /\ OnlyMaskChanged(context_engine, masked, tool)
            /\ Listed(masked, MaskLine(tool, reason))
            /\ OnlyMaskChanged(context_engine, unmask_tool(context_engine, tool), tool)

\* C26, amended: the same, the line of a tool masked with an empty reason
\* being "- <tool>"; the line stays in the block through every call that
\* is not a mask_tool or an unmask_tool of the tool, and unmask_tool takes
\* it out.
C26_MaskChangesOnlyItsEntry ==
    /\ [][ \A tool \in CtxTools, reason \in CtxReasons :
             LET masked == mask_tool(context_engine, tool, reason)
                 unmasked == unmask_tool(context_engine, tool)
                 line == IF reason # "" THEN MaskLine(tool, reason) ELSE <<"- ", tool>>
             IN  /\ OnlyMaskChanged(context_engine, masked, tool)
                 /\ Listed(masked, line)
                 /\ OnlyMaskChanged(context_engine, unmasked, tool)
                 /\ ~Masked(unmasked, tool)
                 /\ \A r \in CtxReasons :
                       ~Listed(unmasked, MaskLine(tool, r))
                       /\ ~Listed(unmasked, <<"- ", tool>>)
                 /\ (/\ Masked(context_engine, tool)
                     /\ context_engine.tool_masks[MaskAt(context_engine, tool)]
                           .mask_reason = reason
                     /\ context_engine' # unmasked
                     /\ \A r \in CtxReasons :
                           context_engine' # mask_tool(context_engine, tool, r))
                    => Listed(context_engine', line) ]_vars
    /\ [][ (CtxMaskTool \/ CtxUnmaskTool) =>
             /\ context_engine'.system_prefix = context_engine.system_prefix
             /\ context_engine'.prefix_hash = context_engine.prefix_hash ]_vars

\* a tool was masked with a reason, unmasked and masked again without one,
\* the other tool being masked all along
C26_Witness ==
    /\ Len(context_engine.tool_masks) = 2
    /\ Masked(context_engine, "browser_use")
    /\ Masked(context_engine, "python_execute")
    /\ Listed(context_engine, <<"- ", "browser_use">>)
    /\ Listed(context_engine, MaskLine("python_execute", "no GUI"))
    /\ context_engine.prefix_hash = sha256_16(system_prompt)
    /\ context_engine.step_count > 0

\* C27: the prefix that build_context returns is the same, byte for byte,
\* as the one it returned before, the stable prefix not having been
\* replaced by one of another digest, whatever was masked, unmasked,
\* recorded or recited since; and the unavailable-tools block is never
\* part of it.
C27_EmittedPrefixStable ==
    /\ [][ (CtxBuildContext /\ context_engine.step_count >= 1)
             => agent'.prefix = agent.prefix ]_vars
    /\ [][ CtxBuildContext =>
             ~HasBlock(agent'.prefix, "[UNAVAILABLE TOOLS - Do not attempt to use:]") ]_vars

\* the positions of the Observation events in log
ObservationsAt(log) == {j \in 1..Len(log) : log[j].type = "observation"}

(***************************************************************************)
(* SpecObserve: runs in which a tool may answer with more than             *)
(* max_observe characters, of output or of error.                          *)
(***************************************************************************)
ObserveReplies ==
    { [content |-> <<"All done.">>, tool_calls |-> <<>>],
      [content |-> <<>>, tool_calls |-> <<ToolCall("call_1", "python_execute", TRUE)>>],
      [content |-> <<>>, tool_calls |-> <<ToolCall("call_1", "python_execute", TRUE),
                                          ToolCall("call_2", "terminate", TRUE)>>],
      [content |-> <<>>, tool_calls |-> <<ToolCall("call_1", "missing_tool", TRUE)>>],
      [content |-> <<>>, tool_calls |-> <<ToolCall("call_1", "missing_tool", TRUE),
                                          ToolCall("call_2", "python_execute", TRUE)>>] }

ObserveResults ==
    {"a.txt b.txt", "done", "Error: network unreachable", "",
     "<10001 characters>", "Error: <10001 characters>"}

InitObserve ==
    /\ Detached
    /\ event_stream = NewStream(DefaultMaxEvents)
    /\ planner = NewPlanner
    /\ context_engine = AgentContextEngine
    /\ agent \in {NewAgent(n) : n \in 0..MaxObserveSteps}
    /\ clock = 0
    /\ budget = 0
    /\ twin = NewRun(DefaultMaxEvents, 0)

ObserveRun ==
    /\ agent.pc = "idle"
    /\ \E req \in Requests, resp \in Responses :
          Becomes(run(Self, req, resp, 1, <<>>, <<>>, clock))
    /\ UNCHANGED <<clock, budget, twin, knowledge_module, datasource, llm, manager>>

ObserveThink ==
    /\ agent.pc = "think"
    /\ \E reply \in ObserveReplies : Becomes(think(Self, reply, clock))
    /\ UNCHANGED <<clock, budget, twin, knowledge_module, datasource, llm, manager>>

ObserveActObserve ==
    /\ agent.pc = "await_tool"
    /\ \E outcome \in ObserveResults, resp \in Responses, llm_ok \in BOOLEAN :
          Becomes(act_observe(Self, execute_tool(agent.tool_calls[agent.cur], outcome),
                              resp, 2, llm_ok, clock))
    /\ UNCHANGED <<clock, budget, twin, knowledge_module, datasource, llm, manager>>

NextObserve ==
    \/ ObserveRun
    \/ ObserveThink
    \/ AgentActDispatch
    \/ ObserveActObserve

SpecObserve == InitObserve /\ [][NextObserve]_vars

\* C28: every Observation event of the log has an error exactly when the
\* tool call failed (its result began with "Error:"), and neither its
\* output nor its error text is longer than max_observe characters.
C28_ObservationTruncated ==
    \A j \in ObservationsAt(event_stream.history) :
        LET obs == event_stream.history[j]
        IN  /\ obs.error # "" => StartsWithError(obs.error) /\ obs.output = ""
            /\ obs.error = "" => ~StartsWithError(obs.output)
            /\ Chars(obs.output) <= max_observe
            /\ Chars(obs.error) <= max_observe

HappyCalls ==
    << ToolCall("call_1", "list_files", TRUE), ToolCall("call_2", "count", TRUE),
       ToolCall("call_3", "terminate", TRUE) >>

HappyResult(tool_name) ==
    CASE tool_name = "list_files" -> "a.txt b.txt"
      [] tool_name = "count" -> "2"
      [] tool_name = "terminate" -> "done"

HappyResponses ==
    { <<Line("", "", <<"I cannot help with that">>)>>,
      <<Line("TITLE:", "", <<"Count files">>), Line("N.", "", <<"List the files">>),
        Line("N.", "", <<"Count them">>), Line("N.", "", <<"Report the count">>)>> }

\* the tool calls the LLM has asked for so far
Issued == Len(get_by_type(event_stream, "action"))

InitHappy ==
    /\ Detached
    /\ event_stream = NewStream(DefaultMaxEvents)
    /\ planner = NewPlanner
    /\ context_engine = AgentContextEngine
    /\ agent \in {NewAgent(n) : n \in 0..MaxHappySteps}
    /\ clock = 0
    /\ budget = 0
    /\ twin = NewRun(DefaultMaxEvents, 0)

HappyRun ==
    /\ agent.pc = "idle"
    /\ \E req \in Requests, resp \in HappyResponses, id \in PlanIds, b \in Briefings :
          Becomes(run(Self, req, resp, id, b.knowledge, b.sources, clock))
    /\ UNCHANGED <<clock, budget, twin, knowledge_module, datasource, llm, manager>>

HappyThink ==
    /\ agent.pc = "think"
    /\ \E k \in 1..(Len(HappyCalls) - Issued) :
          Becomes(think(Self, [content |-> <<>>,
                               tool_calls |-> SubSeq(HappyCalls, Issued + 1, Issued + k)],
                        clock))
    /\ UNCHANGED <<clock, budget, twin, knowledge_module, datasource, llm, manager>>

HappyActObserve ==
    /\ agent.pc = "await_tool"
    /\ Becomes(act_observe(Self, HappyResult(agent.tool_calls[agent.cur].name),
                           <<>>, 1, TRUE, clock))
    /\ UNCHANGED <<clock, budget, twin, knowledge_module, datasource, llm, manager>>

NextHappy ==
    \/ HappyRun
    \/ HappyThink
    \/ AgentActDispatch
    \/ HappyActObserve
    \/ Tick

SpecHappy == InitHappy /\ [][NextHappy]_vars

\* the happy path of the request has run to its end: the three tools have
\* answered and the agent is FINISHED
HappyPathRan ==
    /\ agent.pc = "done"
    /\ agent.state = "FINISHED"
    /\ event_stream.history[1].content = ShortRequest
    /\ Cardinality(ObservationsAt(event_stream.history)) = Len(HappyCalls)

\* C22: at the end of the happy path of "List files in /tmp then print their
\* count." the plan has three steps, all Completed, with a progress of 100
\* percent, and each of the first two Observations is followed by a Plan
\* event that shows the next step in progress.
C22_HappyPathCompletesPlan ==
    HappyPathRan =>
        /\ planner.current_plan # 0
        /\ Len(CurrentPlan(planner).steps) = 3
        /\ \A i \in 1..3 : CurrentPlan(planner).steps[i].status = "completed"
        /\ get_progress(CurrentPlan(planner)).percentage = 100
        /\ \A j \in ObservationsAt(event_stream.history) :
              LET log == event_stream.history
                  nth == Cardinality({k \in ObservationsAt(log) : k <= j})
              IN  nth <= 2 =>
                    /\ j < Len(log)
                    /\ log[j + 1].type = "plan"
                    /\ log[j + 1].current_step_index = nth
                    /\ log[j + 1].step_statuses[nth + 1] = "in_progress"

(***************************************************************************)
(* SpecRecite: runs of up to MaxReciteSteps think/act iterations in which  *)
(* every tool call succeeds, to watch the prompts of the iterations.       *)
(***************************************************************************)
ReciteReplies ==
    { [content |-> <<"Working on it.">>, tool_calls |-> <<>>],
      [content |-> <<>>, tool_calls |-> <<ToolCall("call_1", "python_execute", TRUE)>>] }

ReciteResults == {"a.txt b.txt", "done"}

InitRecite ==
    /\ Detached
    /\ event_stream = NewStream(DefaultMaxEvents)
    /\ planner = NewPlanner
    /\ context_engine = AgentContextEngine
    /\ agent \in {NewAgent(n) : n \in 0..MaxReciteSteps}
    /\ clock = 0
    /\ budget = 0
    /\ twin = NewRun(DefaultMaxEvents, 0)

ReciteThink ==
    /\ agent.pc = "think"
    /\ \E reply \in ReciteReplies : Becomes(think(Self, reply, clock))
    /\ UNCHANGED <<clock, budget, twin, knowledge_module, datasource, llm, manager>>

ReciteActObserve ==
    /\ agent.pc = "await_tool"
    /\ \E result \in ReciteResults :
          Becomes(act_observe(Self, result, <<>>, 1, TRUE, clock))
    /\ UNCHANGED <<clock, budget, twin, knowledge_module, datasource, llm, manager>>

NextRecite ==
    \/ ObserveRun
    \/ ReciteThink
    \/ AgentActDispatch
    \/ ReciteActObserve

SpecRecite == InitRecite /\ [][NextRecite]_vars

\* the prompt of the last iteration has a [CURRENT PROGRESS] block
ProgressRecited ==
    \/ HasBlock(agent.prefix, "[CURRENT PROGRESS]")
    \/ HasBlock(agent.next_step_prompt, "[CURRENT PROGRESS]")

\* C23: the step counter of the context engine counts the think/act
\* iterations one by one, and the prompt of an iteration has a
\* [CURRENT PROGRESS] block exactly when the number of the iteration is a
\* multiple of update_frequency (3).
C23_RecitationCadence ==
    agent.current_step >= 1 =>
        /\ context_engine.step_count = agent.current_step
        /\ ProgressRecited <=> agent.current_step % UpdateFrequency = 0

DescriptionsOf(steps) == [i \in 1..Len(steps) |-> steps[i].description]

\* the todo list has the steps of the plan: the ones not completed as its
\* remaining items, the completed ones as its completed items
TodoFollows(todo, plan) ==
    /\ DescriptionsOf(todo.items) =
          DescriptionsOf(SelectSeq(plan.steps, LAMBDA st : st.status # "completed"))
    /\ DescriptionsOf(todo.completed_items) =
          DescriptionsOf(SelectSeq(plan.steps, LAMBDA st : st.status = "completed"))

\* C35: at every prompt emission after the plan advanced, the remaining
\* items of the todo list are the descriptions of the steps of the current
\* plan that are not completed, and its completed items the completed steps.
C35_TodoFollowsPlanAdvance ==
    [][(/\ PromptEmitted
        /\ planner.current_plan # 0
        /\ CurrentPlan(planner).current_step_index > 0)
       => TodoFollows(context_engine'.todo, CurrentPlan(planner'))]_vars

(***************************************************************************)
(* SpecEvict: the runs of SpecRecite for an agent built with an            *)
(* EventStream of a small max_events and up to MaxEvictSteps iterations,   *)
(* so that appends go over the cap during the run.                         *)
(***************************************************************************)
InitEvict ==
    /\ Detached
    /\ event_stream \in {NewStream(m) : m \in 2..MaxCap}
    /\ planner = NewPlanner
    /\ context_engine = AgentContextEngine
    /\ agent \in {NewAgent(n) : n \in 0..MaxEvictSteps}
    /\ clock = 0
    /\ budget = 0
    /\ twin = NewRun(DefaultMaxEvents, 0)

SpecEvict == InitEvict /\ [][NextRecite]_vars

\* C36: at every point of a run, after the step budget is used up and after
\* the log went over max_events included, every Observation event of the log
\* has an Action event with the same tool_call_id before it.
C36_ObservationHasItsAction ==
    LET log == event_stream.events
    IN  \A j \in 1..Len(log) : log[j].type = "observation" =>
            \E i \in 1..(j - 1) :
                /\ log[i].type = "action"
                /\ log[i].tool_call_id = log[j].tool_call_id

(***************************************************************************)
(* SpecTwin: two agent runs given the same request, the same clock and the *)
(* same replies of the LLM and of the tools.  Plan.id is uuid4()[:8], so   *)
(* each run draws its plan ids on its own.                                 *)
(***************************************************************************)
InitTwin ==
    /\ Detached
    /\ \E n \in 0..MaxTwinSteps :
          /\ agent = NewAgent(n)
          /\ twin = NewRun(DefaultMaxEvents, n)
    /\ event_stream = NewStream(DefaultMaxEvents)
    /\ planner = NewPlanner
    /\ context_engine = AgentContextEngine
    /\ clock = 0
    /\ budget = 0

TwinRun ==
    /\ agent.pc = "idle"
    /\ \E req \in Requests, resp \in Responses, b \in Briefings,
          id1 \in PlanIds, id2 \in PlanIds :
          /\ Becomes(run(Self, req, resp, id1, b.knowledge, b.sources, clock))
          /\ twin' = run(twin, req, resp, id2, b.knowledge, b.sources, clock)
    /\ UNCHANGED <<clock, budget, knowledge_module, datasource, llm, manager>>

TwinThink ==
    /\ agent.pc = "think"
    /\ \E reply \in Replies :
          /\ Becomes(think(Self, reply, clock))
          /\ twin' = think(twin, reply, clock)
    /\ UNCHANGED <<clock, budget, knowledge_module, datasource, llm, manager>>

TwinActDispatch ==
    /\ agent.pc = "act"
    /\ Becomes(act_dispatch(Self, clock))
    /\ twin' = act_dispatch(twin, clock)
    /\ UNCHANGED <<clock, budget, knowledge_module, datasource, llm, manager>>

TwinActObserve ==
    /\ agent.pc = "await_tool"
    /\ \E result \in ToolResults, resp \in Responses, llm_ok \in BOOLEAN,
          id1 \in PlanIds, id2 \in PlanIds :
          /\ Becomes(act_observe(Self, result, resp, id1, llm_ok, clock))
          /\ twin' = act_observe(twin, result, resp, id2, llm_ok, clock)
    /\ UNCHANGED <<clock, budget, knowledge_module, datasource, llm, manager>>

TwinTick ==
    /\ clock < MaxClock
    /\ agent.pc # "done"
    /\ clock' = clock + 1
    /\ UNCHANGED <<event_stream, planner, context_engine, agent, budget, twin,
                   knowledge_module, datasource, llm, manager>>

NextTwin == TwinRun \/ TwinThink \/ TwinActDispatch \/ TwinActObserve \/ TwinTick

SpecTwin == InitTwin /\ [][NextTwin]_vars

\* C8: two agent runs given the same request, the same timestamps and the
\* same replies of the LLM and of the tools serialize their logs to the same
\* bytes.
C8_TwinRunsSerializeAlike ==
    serialize(event_stream) = serialize(twin.event_stream)

(***************************************************************************)
(* SpecKnow: a KnowledgeModule under any sequence of add_knowledge,        *)
(* remove_knowledge, activate_scope and get_relevant_knowledge calls.  The *)
(* module holds at most MaxItems items and injects at most one or at most  *)
(* five of them.                                                           *)
(***************************************************************************)
KnowItems ==
    { KnowledgeItem("browser_tip", "browser", <<"Browser", "click">>, 9, TRUE),
      KnowledgeItem("code_tip", "coding", <<>>, 5, TRUE),
      KnowledgeItem("code_sort", "coding", <<"sort">>, 9, TRUE),
      KnowledgeItem("general_tip", "general", <<"click">>, 7, TRUE),
      KnowledgeItem("shell_off", "shell", <<"sort">>, 7, FALSE) }

KnowContexts == {"Click Login in the Browser", "Sort the numbers"}

KnowTools == {"python_execute", "browser_use", "python"}

KnowToolLists ==
    {<<>>} \cup { <<a>> : a \in KnowTools }
           \cup { <<a, b>> : a \in KnowTools, b \in KnowTools }

InitKnow ==
    /\ \E item \in KnowItems, n \in {1, 5} :
          knowledge_module = KnowledgeModule(<<item>>, n)
    /\ datasource = DatasourceModule
    /\ llm = NewLLM
    /\ manager = SandboxManager(1, IdleTimeout)
    /\ event_stream = NewStream(DefaultMaxEvents)
    /\ planner = NewPlanner
    /\ context_engine = NewContextEngine
    /\ agent = NewAgent(0)
    /\ clock = 0
    /\ budget = MaxQueries
    /\ twin = NewRun(DefaultMaxEvents, 0)

KnowAdd ==
    /\ Len(knowledge_module.knowledge_base) < MaxItems
    /\ \E item \in KnowItems :
          knowledge_module' = add_knowledge(knowledge_module, item)
    /\ UNCHANGED <<core, datasource, llm, manager>>

KnowRemove ==
    /\ \E item \in KnowItems :
          knowledge_module' = remove_knowledge(knowledge_module, item.id)
    /\ UNCHANGED <<core, datasource, llm, manager>>

KnowActivateScope ==
    /\ \E scope \in {"browser", "coding"} :
          knowledge_module' = activate_scope(knowledge_module, scope)
    /\ UNCHANGED <<core, datasource, llm, manager>>

\* A get_relevant_knowledge call; the module keeps what was asked and the
\* answer.  budget counts the calls left.
KnowQuery ==
    /\ budget > 0
    /\ budget' = budget - 1
    /\ \E context \in KnowContexts, tools \in KnowToolLists :
          knowledge_module' =
              [knowledge_module EXCEPT
                 !.asked = [context |-> context, tools |-> tools],
                 !.relevant = get_relevant_knowledge(knowledge_module,
                                                     context, tools)]
    /\ UNCHANGED <<event_stream, planner, context_engine, agent, clock, twin,
                   datasource, llm, manager>>

NextKnow == KnowAdd \/ KnowRemove \/ KnowActivateScope \/ KnowQuery

SpecKnow == InitKnow /\ [][NextKnow]_vars

Registry(km) == <<km.knowledge_base, km.active_scopes, km.max_injections>>

Reorderings(tools) ==
    { t \in KnowToolLists :
        { t[i] : i \in 1..Len(t) } = { tools[i] : i \in 1..Len(tools) } }

KnowQueried == budget' < budget

\* C31: relevant(context, tools) gives the same list in the same order for
\* the same registry content, context and set of tools, whatever the order
\* the tools are given in, and a call leaves the registry as it was.
C31_RelevantDeterministic ==
    [][KnowQueried =>
        /\ Registry(knowledge_module') = Registry(knowledge_module)
        /\ \A t \in Reorderings(knowledge_module'.asked.tools) :
              get_relevant_knowledge(knowledge_module',
                                     knowledge_module'.asked.context, t)
                  = knowledge_module'.relevant]_vars

\* A call with two different tools whose second one brought an item in.
C31_Witness ==
    /\ budget < MaxQueries
    /\ knowledge_module.asked.tools = <<"browser_use", "python">>
    /\ \E i \in 1..Len(knowledge_module.relevant) :
          knowledge_module.relevant[i].id = "code_tip"

\* C32: relevant returns exactly the enabled items of which a trigger occurs
\* in the context, case-insensitively, or of which the scope's table names a
\* substring of an active tool (python_execute for coding), by descending
\* priority, cut to max_injections.
C32_RelevantBySubstring ==
    [][KnowQueried =>
        LET asked == knowledge_module'.asked
            active_tools == { asked.tools[i] : i \in 1..Len(asked.tools) }
            Claimed(item) ==
                matches_by_substring(item, asked.context, active_tools)
            ByPriority(a, b) == a.priority > b.priority
        IN  knowledge_module'.relevant =
                Prefix(StableSort(Filter(knowledge_module.knowledge_base,
                                         Claimed), ByPriority),
                       knowledge_module.max_injections)]_vars

(***************************************************************************)
(* SpecData: a DatasourceModule, built with its default sources, under any *)
(* sequence of register, unregister, get_datasource_events and             *)
(* find_relevant calls.                                                    *)
(***************************************************************************)
DataSources ==
    { Datasource("metoffice", "Met Office", <<>>, 8, <<"weather">>, TRUE),
      Datasource("wikipedia", "Wikipedia API", <<"Get article summary">>, 7,
                 <<"wikipedia", "articles">>, FALSE) }

DataQueries == {"Countries articles", "Weather", "stocks"}

InitData ==
    /\ datasource = DatasourceModule
    /\ knowledge_module =
          KnowledgeModule(<<KnowledgeItem("general_verify", "general",
                                          <<"complete", "done">>, 7, TRUE)>>, 5)
    /\ llm = NewLLM
    /\ manager = SandboxManager(1, IdleTimeout)
    /\ event_stream = NewStream(DefaultMaxEvents)
    /\ planner = NewPlanner
    /\ context_engine = NewContextEngine
    /\ agent = NewAgent(0)
    /\ clock = 0
    /\ budget = MaxQueries
    /\ twin = NewRun(DefaultMaxEvents, 0)

DataRegister ==
    /\ \E source \in DataSources : datasource' = register(datasource, source)
    /\ UNCHANGED <<core, knowledge_module, llm, manager>>

DataUnregister ==
    /\ \E id \in {"github", "metoffice", "wikipedia"} :
          datasource' = unregister(datasource, id)
    /\ UNCHANGED <<core, knowledge_module, llm, manager>>

DataEvents ==
    /\ \E context \in DataQueries :
          /\ \A i \in 1..Len(datasource.sources) :
                datasource.sources[i].usage_count < MaxUsage
          /\ datasource' = get_datasource_events(datasource, context, clock)
    /\ UNCHANGED <<core, knowledge_module, llm, manager>>

\* A find_relevant call; the module keeps what was asked and the answer.
\* budget counts the calls left.
DataFind ==
    /\ budget > 0
    /\ budget' = budget - 1
    /\ \E query \in DataQueries, limit \in 1..3 :
          datasource' =
              [datasource EXCEPT
                 !.asked = [query |-> query, limit |-> limit],
                 !.found = find_relevant(datasource, query, limit)]
    /\ UNCHANGED <<event_stream, planner, context_engine, agent, clock, twin,
                   knowledge_module, llm, manager>>

NextData == DataRegister \/ DataUnregister \/ DataEvents \/ DataFind

SpecData == InitData /\ [][NextData]_vars

DataFound == budget' < budget

\* Python's order of the ids the model uses: the place of an id in the list.
IdRank(id) ==
    LET ids == <<"github", "jsonplaceholder", "metoffice", "openweathermap",
                 "restcountries", "wikipedia">>
    IN  CHOOSE i \in 1..Len(ids) : ids[i] = id

RankedBefore(a, b) ==
    \/ a.priority > b.priority
    \/ /\ a.priority = b.priority
       /\ \/ a.usage_count > b.usage_count
          \/ /\ a.usage_count = b.usage_count
             /\ IdRank(a.id) < IdRank(b.id)

\* C33: find_relevant(query, limit) returns only enabled, registered sources
\* that match the query, at most limit of them, by descending priority, ties
\* by descending usage_count and then by id.
C33_FindRelevantRanked ==
    [][DataFound =>
        LET found == datasource'.found
            asked == datasource'.asked
        IN  /\ Len(found) <= asked.limit
            /\ \A i \in 1..Len(found) :
                  /\ found[i].enabled
                  /\ matches_query(found[i], asked.query)
                  /\ \E k \in 1..Len(datasource.sources) :
                        datasource.sources[k] = found[i]
            /\ \A i, j \in 1..Len(found) :
                  i < j => RankedBefore(found[i], found[j])]_vars

(***************************************************************************)
(* SpecLLM: up to MaxLlmCalls calls of LLM.ask or LLM.ask_tool, one after  *)
(* another, each attempt of which may return or raise.                     *)
(***************************************************************************)
LlmOutcomes ==
    {"ok", "TokenLimitExceeded", "AuthenticationError", "RateLimitError",
     "APIError", "ValueError"}

NonTransient == {"TokenLimitExceeded", "AuthenticationError"}

InitLLM ==
    /\ llm = NewLLM
    /\ knowledge_module =
          KnowledgeModule(<<KnowledgeItem("general_verify", "general",
                                          <<"complete", "done">>, 7, TRUE)>>, 5)
    /\ datasource = DatasourceModule
    /\ manager = SandboxManager(1, IdleTimeout)
    /\ event_stream = NewStream(DefaultMaxEvents)
    /\ planner = NewPlanner
    /\ context_engine = NewContextEngine
    /\ agent = NewAgent(0)
    /\ clock = 0
    /\ budget = MaxLlmCalls
    /\ twin = NewRun(DefaultMaxEvents, 0)

LlmAsk ==
    /\ llm.pc \in {"idle", "returned", "raised"}
    /\ budget > 0
    /\ budget' = budget - 1
    /\ \E method \in {"ask", "ask_tool"} : llm' = ask(llm, method)
    /\ UNCHANGED <<event_stream, planner, context_engine, agent, clock, twin,
                   knowledge_module, datasource, manager>>

LlmAttemptEnds ==
    /\ llm.pc = "attempt"
    /\ \E outcome \in LlmOutcomes : llm' = attempt_ends(llm, outcome)
    /\ UNCHANGED <<core, knowledge_module, datasource, manager>>

LlmNextAttempt ==
    /\ llm.pc = "sleeping"
    /\ llm' = next_attempt(llm)
    /\ UNCHANGED <<core, knowledge_module, datasource, manager>>

NextLLM == LlmAsk \/ LlmAttemptEnds \/ LlmNextAttempt

SpecLLM == InitLLM /\ [][NextLLM]_vars

\* C34: an LLM call that fails with a non-transient error (token limit,
\* authentication) is never retried, the error propagating from the attempt
\* that met it; a call that fails with transient errors makes at most six
\* attempts.
C34_NonTransientNeverRetried ==
    /\ llm.attempts <= 6
    /\ llm.error \in NonTransient =>
          /\ llm.pc # "sleeping"
          /\ llm.pc = "raised" => llm.raised = llm.error

(***************************************************************************)
(* SpecBox: a SandboxManager of one or two sandboxes at most.  Two         *)
(* callers make up to MaxBoxCalls calls of create_sandbox,                 *)
(* sandbox_operation, delete_sandbox and cleanup between them, while the   *)
(* cleanup loop runs and the clock of the event loop goes on.              *)
(***************************************************************************)
Callers == {"t1", "t2"}

Deleters == {"t1", "t2", "cl", "d1", "d2"}

InitBox ==
    /\ manager \in {SandboxManager(n, IdleTimeout) : n \in 1..MaxBoxIds}
    /\ knowledge_module =
          KnowledgeModule(<<KnowledgeItem("general_verify", "general",
                                          <<"complete", "done">>, 7, TRUE)>>, 5)
    /\ datasource = DatasourceModule
    /\ llm = NewLLM
    /\ event_stream = NewStream(DefaultMaxEvents)
    /\ planner = NewPlanner
    /\ context_engine = NewContextEngine
    /\ agent = NewAgent(0)
    /\ clock = 0
    /\ budget = MaxBoxCalls
    /\ twin = NewRun(DefaultMaxEvents, 0)

\* A caller calls a method of the manager; budget counts the calls left.
BoxCall ==
    /\ budget > 0
    /\ budget' = budget - 1
    /\ \E t \in Callers :
          /\ manager.tasks[t].pc \in {"idle", "done"}
          /\ \/ /\ manager.next_id <= MaxBoxIds
                /\ manager' = [manager EXCEPT !.tasks[t] = NewTask("create_lock")]
             \/ \E sandbox_id \in 1..MaxBoxIds, pc \in {"operation_lock", "delete_enter"} :
                   manager' = [manager EXCEPT
                                 !.tasks[t] = [NewTask(pc) EXCEPT !.id = sandbox_id]]
             \/ /\ ~manager.is_shutting_down
                /\ manager' = [manager EXCEPT !.tasks[t] = NewTask("cleanup_start")]
    /\ UNCHANGED <<event_stream, planner, context_engine, agent, clock, twin,
                   knowledge_module, datasource, llm>>

BoxCreateLocked ==
    /\ \E t \in Callers :
          /\ manager.tasks[t].pc = "create_lock"
          /\ manager' = create_locked(manager, t)
    /\ UNCHANGED <<core, knowledge_module, datasource, llm>>

BoxCreateFinish ==
    /\ \E t \in Callers, ok \in BOOLEAN :
          /\ manager.tasks[t].pc = "create_await"
          /\ manager' = create_finish(manager, t, ok)
    /\ UNCHANGED <<core, knowledge_module, datasource, llm>>

BoxOperationEnter ==
    /\ \E t \in Callers :
          /\ manager.tasks[t].pc = "operation_lock"
          /\ manager' = operation_enter(manager, t)
    /\ UNCHANGED <<core, knowledge_module, datasource, llm>>

BoxOperationExit ==
    /\ \E t \in Callers :
          /\ manager.tasks[t].pc = "operation_body"
          /\ manager' = operation_exit(manager, t)
    /\ UNCHANGED <<core, knowledge_module, datasource, llm>>

BoxDeleteEnter ==
    /\ \E t \in Callers :
          /\ manager.tasks[t].pc = "delete_enter"
          /\ manager' = delete_enter(manager, t)
    /\ UNCHANGED <<core, knowledge_module, datasource, llm>>

BoxDeleteSleepEnds ==
    /\ \E t \in Deleters :
          /\ manager.tasks[t].pc = "delete_sleep"
          /\ manager' = delete_sleep_ends(manager, t)
    /\ UNCHANGED <<core, knowledge_module, datasource, llm>>

BoxDeleteCleaned ==
    /\ \E t \in Deleters :
          /\ manager.tasks[t].pc = "delete_cleaning"
          /\ manager' = delete_cleaned(manager, t)
    /\ UNCHANGED <<core, knowledge_module, datasource, llm>>

BoxDeletePop ==
    /\ \E t \in Deleters :
          /\ manager.tasks[t].pc = "delete_pop"
          /\ manager' = delete_pop(manager, t)
    /\ UNCHANGED <<core, knowledge_module, datasource, llm>>

BoxIdleStart ==
    /\ manager.tasks["cl"].pc = "idle_start"
    /\ manager' = idle_start(manager)
    /\ UNCHANGED <<core, knowledge_module, datasource, llm>>

BoxIdleScan ==
    /\ manager.tasks["cl"].pc = "idle_scan"
    /\ manager' = idle_scan(manager)
    /\ UNCHANGED <<core, knowledge_module, datasource, llm>>

BoxIdleNext ==
    /\ manager.tasks["cl"].pc = "idle_next"
    /\ manager' = idle_next(manager)
    /\ UNCHANGED <<core, knowledge_module, datasource, llm>>

BoxIdleWake ==
    /\ manager.tasks["cl"].pc = "sleeping"
    /\ manager' = idle_wake(manager)
    /\ UNCHANGED <<core, knowledge_module, datasource, llm>>

BoxCleanupStart ==
    /\ \E t \in Callers, stopped \in BOOLEAN :
          /\ manager.tasks[t].pc = "cleanup_start"
          /\ manager' = cleanup_start(manager, t, stopped)
    /\ UNCHANGED <<core, knowledge_module, datasource, llm>>

BoxCleanupIds ==
    /\ \E t \in Callers :
          /\ manager.tasks[t].pc = "cleanup_ids"
          /\ manager' = cleanup_ids(manager, t)
    /\ UNCHANGED <<core, knowledge_module, datasource, llm>>

\* asyncio.wait returns when the tasks are done, or at its timeout while a
\* task awaits the container's removal or the global lock.
BoxCleanupClear ==
    /\ \E t \in Callers :
          /\ manager.tasks[t].pc = "cleanup_wait"
          /\ \A d \in {"d1", "d2"} : manager.tasks[d].pc # "delete_sleep"
          /\ manager' = cleanup_clear(manager, t)
    /\ UNCHANGED <<core, knowledge_module, datasource, llm>>

\* The clock of the event loop.
BoxTick ==
    /\ manager.now < MaxBoxTime
    /\ manager' = [manager EXCEPT !.now = @ + 1]
    /\ UNCHANGED <<core, knowledge_module, datasource, llm>>

NextBox ==
    \/ BoxCall
    \/ BoxCreateLocked
    \/ BoxCreateFinish
    \/ BoxOperationEnter
    \/ BoxOperationExit
    \/ BoxDeleteEnter
    \/ BoxDeleteSleepEnds
    \/ BoxDeleteCleaned
    \/ BoxDeletePop
    \/ BoxIdleStart
    \/ BoxIdleScan
    \/ BoxIdleNext
    \/ BoxIdleWake
    \/ BoxCleanupStart
    \/ BoxCleanupIds
    \/ BoxCleanupClear
    \/ BoxTick

SpecBox == InitBox /\ [][NextBox]_vars

\* the task t leaves the test of create_sandbox with the manager full
RefusedAtMax(t) ==
    /\ manager.tasks[t].pc = "create_lock"
    /\ manager'.tasks[t].pc # "create_lock"
    /\ Cardinality(manager.sandboxes) >= manager.max_sandboxes

\* C37: under concurrent create_sandbox and delete_sandbox calls the number
\* of sandboxes never exceeds max_sandboxes, and a create_sandbox that finds
\* the manager at max_sandboxes raises RuntimeError 'Maximum number of
\* sandboxes (N) reached' and registers nothing.
C37_SandboxCountBounded ==
    [][/\ Cardinality(manager'.sandboxes) <= manager'.max_sandboxes
       /\ \A t \in Callers : RefusedAtMax(t) =>
             /\ manager'.tasks[t].pc = "done"
             /\ manager'.tasks[t].result =
                   "RuntimeError: Maximum number of sandboxes ("
                     \o ToString(manager.max_sandboxes) \o ") reached"
             /\ manager'.sandboxes = manager.sandboxes
             /\ manager'.last_used = manager.last_used
             /\ manager'.locks = manager.locks]_vars

\* a create_sandbox was refused by a manager that is full, while the other
\* caller is in a delete_sandbox
C37_Witness ==
    /\ Cardinality(manager.sandboxes) = manager.max_sandboxes
    /\ \E t \in Callers, u \in Callers :
          /\ manager.tasks[t].pc = "done"
          /\ manager.tasks[t].result =
                "RuntimeError: Maximum number of sandboxes (1) reached"
          /\ manager.tasks[u].pc = "delete_cleaning"

\* some task awaits sandbox.cleanup() of the sandbox
Cleaning(sandbox_id) ==
    \E t \in Deleters :
        manager.tasks[t].pc = "delete_cleaning" /\ manager.tasks[t].id = sandbox_id

\* C39: no sandbox is cleaned up or removed while a sandbox_operation on it
\* is active, under any interleaving of operations with the idle cleanup,
\* delete_sandbox and the manager's cleanup.
C39_NoCleanupUnderOperation ==
    \A t \in Callers : manager.tasks[t].pc = "operation_body" =>
        /\ manager.tasks[t].id \in manager.sandboxes
        /\ manager.tasks[t].id \notin manager.cleaned
        /\ ~Cleaning(manager.tasks[t].id)

====
